---- MODULE Spec2Model ----
(***************************************************************************)
(* A model of the gesso wallpaper engine (src/wallpaper): the per-output   *)
(* layer surfaces with their double-buffered SHM slots, the apply / unset  *)
(* / stop operations of Engine, the Wayland event handlers, and the        *)
(* buffer-wait loop that paces every painted frame.                        *)
(***************************************************************************)
EXTENDS Integers, Sequences, FiniteSets, TLC

\* ------------------------------------------------------------------ bounds
MaxOutputs == 2
MaxRequests == 2
NColours == 2
CommitCap == 2
CbCap == 2
PaintMs == 10
MaxClock == 6500
FadeMs == 50
PacedMs == 25

\* ------------------------------------------------------- program constants
DISABLE_FRAME_CB_AFTER == 200
HARD_BAIL_AFTER == 1500
POLL_TIMEOUT_MS == 16
LOOP_SLEEP_MS == 1
MIN_COLOUR_DURATION == 16
MIN_IMAGE_DURATION == 1
TARGET_FPS == 60
CONFIGURE_ATTEMPTS == 10

\* ------------------------------------------------------------ Option<T>
None == <<>>
Some(x) == <<x>>
IsSome(o) == o # <<>>
Unwrap(o) == o[1]

Min(a, b) == IF a <= b THEN a ELSE b
Max(a, b) == IF a >= b THEN a ELSE b

\* ------------------------------------------------------------ universe
OutputNames == <<"HDMI-A-1", "DP-1", "eDP-1">>
\* what wl_output.description carries for each output
OutputDescriptions == <<"Dell U2720Q", "LG HDR 4K", "Built-in display">>
UnknownOutput == "NOPE"
Palette == << [r |-> 0, g |-> 0, b |-> 0], [r |-> 16, g |-> 32, b |-> 48],
              [r |-> 255, g |-> 255, b |-> 255] >>
Colours == {Palette[k] : k \in 1..NColours}
\* the size the compositor configures each output's layer surface with
OutputSize == << <<2, 1>>, <<1, 2>>, <<1, 1>> >>
\* a decodable source image (width, height, RGBA pixels row-major) and the
\* path of a file that does not decode
GoodImage == [w |-> 1, h |-> 1, px |-> << <<200, 100, 50, 255>> >>]
WallPng == <<"wall.png">>
MissingPng == <<"missing.png">>
ImagePaths == {WallPng, MissingPng}

\* ------------------------------------------------------------ pixels
xrgb8888(c) == c.r * 65536 + c.g * 256 + c.b

SolidFrame(px, n) == [k \in 1..n |-> px]

composite_rgba_over_bg(px, bg) ==
    IF px[4] >= 255 THEN (px[1] % 256) * 65536 + (px[2] % 256) * 256 + (px[3] % 256)
    ELSE IF px[4] = 0 THEN xrgb8888(bg)
    ELSE LET inv == 255 - px[4]
             or == (px[1] * px[4] + bg.r * inv) \div 255
             og == (px[2] * px[4] + bg.g * inv) \div 255
             ob == (px[3] * px[4] + bg.b * inv) \div 255
         IN (or % 256) * 65536 + (og % 256) * 256 + (ob % 256)

\* Mode::Tile: out[y*w + x] = src(x mod sw, y mod sh) composited over bg
render_final_frame_u32(dw, dh, src, bg) ==
    IF src.w = 0 \/ src.h = 0 THEN SolidFrame(xrgb8888(bg), dw * dh)
    ELSE [k \in 1..(dw * dh) |->
            LET x == (k - 1) % dw
                y == (k - 1) \div dw
            IN composite_rgba_over_bg(src.px[(y % src.h) * src.w + (x % src.w) + 1], bg)]

ChanR(x) == (x \div 65536) % 256
ChanG(x) == (x \div 256) % 256
ChanB(x) == x % 256

\* lerp of one XRGB pixel with t + inv = 256.  The source packs red and blue
\* into one u32 product, ((a & 0x00FF00FF)*inv + (b & 0x00FF00FF)*t) >> 8,
\* masked with 0x00FF00FF, and lerps green in a second one; u32 arithmetic
\* wraps at 2^32, and rb | g of disjoint fields is their sum.
\* a u32 is kept as two 16-bit halves <<hi, lo>>, so that the products keep
\* their width: Halves of a word, a*inv + b*t wrapping at 2^32, x >> 8,
\* x & 0x00FF00FF, x & 0x0000FF00 and x & 0x00FFFFFF
Halves(x) == <<x \div 65536, x % 65536>>
MulAdd32(a, inv, b, t) ==
    LET lo == a[2] * inv + b[2] * t
        hi == a[1] * inv + b[1] * t + lo \div 65536
    IN <<hi % 65536, lo % 65536>>
Shr8(x) == <<x[1] \div 256, (x[1] % 256) * 256 + x[2] \div 256>>
MaskRB(x) == <<x[1] % 256, x[2] % 256>>
MaskG(x) == <<0, (x[2] \div 256) * 256>>
MaskRGB(x) == <<x[1] % 256, x[2]>>
\* the kernel without the split into fields: the whole word in one product
lerp_xrgb_u8_unsplit(a, b, t, inv) ==
    LET w == MaskRGB(Shr8(MulAdd32(MaskRGB(Halves(a)), inv, MaskRGB(Halves(b)), t)))
    IN w[1] * 65536 + w[2]
lerp_xrgb_u8_fast(a, b, t, inv) ==
    LET a_rb == MaskRB(Halves(a))
        b_rb == MaskRB(Halves(b))
        a_g == MaskG(Halves(a))
        b_g == MaskG(Halves(b))
        rb == MaskRB(Shr8(MulAdd32(a_rb, inv, b_rb, t)))
        g == MaskG(Shr8(MulAdd32(a_g, inv, b_g, t)))
    IN (rb[1] + g[1]) * 65536 + rb[2] + g[2]

\* no call of the blend kernel is being followed
NoBlend == [from |-> <<>>, to |-> <<>>, t256 |-> 0, dst |-> <<>>]

\* no daemon process is being followed
NoInst == [pc |-> <<>>, lock |-> 0, sock |-> 0, last |-> <<>>, starts |-> 0]

\* a pixel of a mapped buffer that the last paint did not write
Stale == 0 - 1

\* dst[..n] = frame[..n] over a destination of dstlen pixels
CopyInto(dstlen, frame) ==
    [k \in 1..dstlen |-> IF k <= Len(frame) THEN frame[k] ELSE Stale]

\* the same with t and inv exchanged in the lerp
paint_blend_frame_to_solid_fast_swapped(dstlen, from_frame, to_px, t256) ==
    LET n == Min(dstlen, Len(from_frame))
    IN [k \in 1..dstlen |->
          IF k > n THEN Stale
          ELSE IF t256 >= 256 THEN to_px
          ELSE IF t256 = 0 THEN from_frame[k]
          ELSE lerp_xrgb_u8_fast(from_frame[k], to_px, 256 - t256, t256)]
paint_blend_frame_to_solid_fast(dstlen, from_frame, to_px, t256) ==
    LET n == Min(dstlen, Len(from_frame))
    IN [k \in 1..dstlen |->
          IF k > n THEN Stale
          ELSE IF t256 >= 256 THEN to_px
          ELSE IF t256 = 0 THEN from_frame[k]
          ELSE lerp_xrgb_u8_fast(from_frame[k], to_px, t256, 256 - t256)]

paint_blend_frame_to_frame_fast(dstlen, from_frame, to_frame, t256) ==
    LET n == Min(Min(dstlen, Len(from_frame)), Len(to_frame))
    IN [k \in 1..dstlen |->
          IF k > n THEN Stale
          ELSE IF t256 >= 256 THEN to_frame[k]
          ELSE IF t256 = 0 THEN from_frame[k]
          ELSE lerp_xrgb_u8_fast(from_frame[k], to_frame[k], t256, 256 - t256)]

\* wipe_from is "Left" or "Right"; to(k) is the target pixel at index k
WipeKernel(w, h, dstlen, from_frame, to, tolen, t256, wipe_from) ==
    LET n == Min(Min(Min(dstlen, Len(from_frame)), tolen), w * h)
        rows == IF w = 0 THEN 0 ELSE n \div w
        cols == Min((Min(t256, 256) * w) \div 256, w)
        start == w - cols
    IN [k \in 1..dstlen |->
          IF w = 0 \/ h = 0 \/ n < w \/ k > n THEN Stale
          ELSE IF t256 >= 256 THEN to[k]
          ELSE IF t256 = 0 THEN from_frame[k]
          ELSE IF k > rows * w THEN Stale
          ELSE LET x == (k - 1) % w
               IN IF wipe_from = "Left"
                  THEN (IF x < cols THEN to[k] ELSE from_frame[k])
                  ELSE (IF x < start THEN from_frame[k] ELSE to[k])]

paint_wipe_frame_to_solid_fast(w, h, dstlen, from_frame, to_px, t256, wipe_from) ==
    WipeKernel(w, h, dstlen, from_frame, [k \in 1..dstlen |-> to_px], dstlen,
               t256, wipe_from)

paint_wipe_frame_to_frame_fast(w, h, dstlen, from_frame, to_frame, t256, wipe_from) ==
    WipeKernel(w, h, dstlen, from_frame, to_frame, Len(to_frame), t256, wipe_from)

\* animations::paint_wipe_frame_to_frame_dir with the direction's start column
\* taken for cols
paint_wipe_frame_to_frame_dir_mirrored(w, h, dstlen, fromf, tof, tt, wipe_from) ==
    LET cols == Min((w * Min(tt, 256)) \div 256, w)
        n == Min(Min(Min(w * h, dstlen), Len(fromf)), Len(tof))
        rows == IF w = 0 THEN 0 ELSE n \div w
    IN [k \in 1..dstlen |->
          IF w = 0 \/ h = 0 \/ n < w \/ k > rows * w THEN Stale
          ELSE LET x == (k - 1) % w
               IN IF wipe_from = "Left"
                  THEN (IF x < cols THEN tof[k] ELSE fromf[k])
                  ELSE (IF x < cols THEN fromf[k] ELSE tof[k])]
paint_wipe_frame_to_frame_dir(w, h, dstlen, fromf, tof, tt, wipe_from) ==
    LET cols == Min((w * Min(tt, 256)) \div 256, w)
        n == Min(Min(Min(w * h, dstlen), Len(fromf)), Len(tof))
        rows == IF w = 0 THEN 0 ELSE n \div w
        start == IF cols > w THEN 0 ELSE w - cols
    IN [k \in 1..dstlen |->
          IF w = 0 \/ h = 0 \/ n < w \/ k > rows * w THEN Stale
          ELSE LET x == (k - 1) % w
               IN IF wipe_from = "Left"
                  THEN (IF x < cols THEN tof[k] ELSE fromf[k])
                  ELSE (IF x < start THEN fromf[k] ELSE tof[k])]

\* tt = round(ease_out_cubic(min(elapsed/duration, 1)) * 256), in integers:
\* ease_out_cubic(t) = (t-1)^3 + 1 = (d^3 - (d-e)^3) / d^3
TT(elapsed, duration) ==
    LET e == Min(elapsed, duration)
        d3 == duration * duration * duration
        r3 == (duration - e) * (duration - e) * (duration - e)
    IN (2 * 256 * (d3 - r3) + d3) \div (2 * d3)

\* ------------------------------------------------------------ DoubleBuffer
EmptyShmBuf == [ready |-> FALSE, busy |-> FALSE]
DefaultDoubleBuffer == [a |-> EmptyShmBuf, b |-> EmptyShmBuf, current |-> 0]
Slot(db, which) == IF which = 0 THEN db.a ELSE db.b
current_buffer(db) == Slot(db, db.current).ready
swap(db) == [db EXCEPT !.current = 1 - db.current]
both_ready(db) == db.a.ready /\ db.b.ready
current_is_busy(db) == Slot(db, db.current).busy
mark_current_busy(db) ==
    IF db.current = 0 THEN [db EXCEPT !.a.busy = TRUE] ELSE [db EXCEPT !.b.busy = TRUE]
\* a release that frees whichever slot is busy
mark_free_any(db, which) == [db EXCEPT !.a.busy = FALSE, !.b.busy = FALSE]
mark_free(db, which) ==
    IF which = 0 THEN [db EXCEPT !.a.busy = FALSE] ELSE [db EXCEPT !.b.busy = FALSE]
swap_to_free(db) ==
    IF ~Slot(db, 1 - db.current).busy THEN [db EXCEPT !.current = 1 - db.current] ELSE db

\* ------------------------------------------------------------ SurfaceState
\* the row ensure_surfaces / resurrect builds for an output
NewSurface(name) ==
    [output_name |-> name, alive |-> TRUE, width |-> 0, height |-> 0,
     configured |-> FALSE, stride |-> 0, size_bytes |-> 0,
     buffers |-> DefaultDoubleBuffer,
     last_colour |-> [r |-> 0, g |-> 0, b |-> 0], has_image |-> FALSE,
     last_frame |-> None, frame_callback_ok |-> FALSE,
     frame_pending |-> FALSE, frame_cb |-> FALSE]

\* pacing state left as it is
ClearPacingNot(s) == s

\* frame_callback_ok = false, frame_pending = false, frame_cb = None
ClearPacing(s) ==
    [s EXCEPT !.frame_callback_ok = FALSE, !.frame_pending = FALSE, !.frame_cb = FALSE]

surface_usable(s) == s.alive /\ s.configured /\ s.width # 0 /\ s.height # 0

\* a selection that takes every row whatever output names
surface_selected_any(s, output) == TRUE

\* output is Option<String>
surface_selected(s, output) ==
    IF IsSome(output) THEN s.output_name = output ELSE TRUE

NumPixels(s) == s.width * s.height
DstLen(s) == s.size_bytes \div 4

\* ------------------------------------------------------------ requests
Transitions ==
    { [kind |-> "None", duration |-> 200, wipe_from |-> "Left"],
      [kind |-> "Fade", duration |-> 0, wipe_from |-> "Left"],
      [kind |-> "Wipe", duration |-> 20, wipe_from |-> "Right"] }

ColourSpec(c, out, tr) ==
    [kind |-> "colour", colour |-> c, path |-> <<>>, output |-> out, transition |-> tr]
\* an image spec: path, background colour, output, transition (Mode::Tile)
ImageSpec(path, c, out, tr) ==
    [kind |-> "image", colour |-> c, path |-> path, mode |-> "Tile", output |-> out,
     transition |-> tr]

\* ------------------------------------------------------------ state
VARIABLES
    globals,     \* which of wl_compositor / wl_shm / layer-shell were bound
    outputs,     \* Engine.outputs: one record per wl_output global
    policy,      \* what the compositor on the other end does
    conn_ok,     \* FALSE once the Wayland socket is broken
    surfaces,    \* Engine.surfaces: one SurfaceState row per output
    current,     \* Engine.current: Option<Spec>
    comp,        \* compositor side, per output: buffers held, callbacks owed
    pc,          \* where the engine's single thread is
    op,          \* locals of the operation in progress
    result,      \* outcome of the operation that just returned
    now,         \* milliseconds on the monotonic clock since the operation began
    budget,      \* requests the clients will still send
    cache,       \* the cache directory on disk and the image files keys are made of
    blend,       \* one call of a paint kernel: its arguments and the pixels it wrote
    inst,        \* the daemon processes of one runtime directory, gesso.lock and ctl.sock
    current_json \* the daemon's state file current.json: the spec it holds, if any

vars == <<globals, outputs, policy, conn_ok, surfaces, current, comp, pc, op, result,
          now, budget, cache, blend, inst, current_json>>

N == Len(outputs)
Idx == 1..Len(surfaces)

\* ------------------------------------------------------------ cache
MAX_CACHED_IMAGES == 5
\* entry ids the clock hands out, and edits made to image files
MaxRecords == 6
MaxEdits == 2
MaxLookupRecords == 3

Ok(v) == [ok |-> TRUE, val |-> v]
Err(e) == [ok |-> FALSE, val |-> e]

\* paths are sequences of components; HOME is /home/u
Home == <<"home", "u">>
expand_user_path(p) == IF p # <<>> /\ Head(p) = "~" THEN Home \o Tail(p) ELSE p

\* image files on disk (one of them does not exist) and how specs spell them
FileA == Home \o <<"a.png">>
FileB == Home \o <<"b.png">>
FileGone == Home \o <<"gone.png">>
CachePaths == {<<"~", "a.png">>, FileA, FileB, FileGone}
Modes == {"Fill", "Fit", "Tile"}
NewFile == [size |-> 1, mtime_secs |-> 1, mtime_nanos |-> 0]
MetaFields == {"size", "mtime_secs", "mtime_nanos"}

CacheImageSpec(path, mode, c) ==
    [kind |-> "image", path |-> path, mode |-> mode, colour |-> c, output |-> None,
     transition |-> [kind |-> "None", duration |-> 200, wipe_from |-> "Left"]]

\* u32::to_ne_bytes / from_ne_bytes on a little-endian machine
to_ne_bytes(px) ==
    <<px % 256, (px \div 256) % 256, (px \div 65536) % 256, (px \div 16777216) % 256>>
from_ne_bytes(b) == b[1] + b[2] * 256 + b[3] * 65536 + b[4] * 16777216
FrameBytes(frame) ==
    [k \in 1..(4 * Len(frame)) |-> to_ne_bytes(frame[((k - 1) \div 4) + 1])[((k - 1) % 4) + 1]]
BytesFrame(data) ==
    [k \in 1..(Len(data) \div 4) |-> from_ne_bytes(SubSeq(data, 4 * k - 3, 4 * k))]

\* frame_path(entry_id, si, w, h) and the sibling atomic_write stages into
frame_path(id, si, w, h) == <<"xrgb", id, si, w, h>>
TmpPathSame(p) == p
TmpPath(p) == [p EXCEPT ![1] = "tmp"]

NoRet == [op |-> "none", spec |-> None, key |-> Err(""), val |-> Err("")]
NoAw == [step |-> "idle", target |-> <<>>, bytes |-> <<>>, prev |-> None]

EmptyCache ==
    [index |-> [state |-> "absent", entries |-> <<>>],
     dirs |-> {},
     removed |-> {},
     fs |-> [n \in {} |-> <<>>],
     meta |-> [f \in {FileA, FileB, FileGone, WallPng, MissingPng} |->
                 IF f \in {FileGone, MissingPng} THEN None ELSE Some(NewFile)],
     last_match |-> None,
     issued |-> [k \in {} |-> 0],
     clock |-> 1,
     edits |-> 0,
     fresh |-> TRUE,
     cur_id |-> None,
     ret |-> NoRet,
     aw |-> NoAw]

\* a cache directory whose content the model leaves open: a lookup may go
\* either way
UnknownCache == [EmptyCache EXCEPT !.index.state = "unknown"]

\* a file of the cache directory written or removed
WriteFile(fs, p, data) == [n \in DOMAIN fs \cup {p} |-> IF n = p THEN data ELSE fs[n]]
RemoveFile(fs, p) == [n \in DOMAIN fs \ {p} |-> fs[n]]
\* fs::remove_dir_all(entry_dir(id))
RemoveEntryDirs(fs, ids) == [n \in {m \in DOMAIN fs : m[2] \notin ids} |-> fs[n]]

compute_image_key_no_nanos(spec) ==
    LET e == expand_user_path(spec.path)
    IN IF ~IsSome(cache.meta[e]) THEN Err("metadata")
       ELSE Ok([path |-> e, mode |-> spec.mode, colour |-> spec.colour,
                size |-> Unwrap(cache.meta[e]).size,
                mtime_secs |-> Unwrap(cache.meta[e]).mtime_secs,
                mtime_nanos |-> 0])
compute_image_key(spec) ==
    LET e == expand_user_path(spec.path)
    IN IF ~IsSome(cache.meta[e]) THEN Err("metadata")
       ELSE Ok([path |-> e, mode |-> spec.mode, colour |-> spec.colour,
                size |-> Unwrap(cache.meta[e]).size,
                mtime_secs |-> Unwrap(cache.meta[e]).mtime_secs,
                mtime_nanos |-> Unwrap(cache.meta[e]).mtime_nanos])

read_cache_index ==
    IF cache.index.state = "absent" THEN Ok(<<>>)
    ELSE IF cache.index.state = "corrupt" THEN Err("parse cache_index")
    ELSE Ok(cache.index.entries)

\* entries.iter().position(|e| e.key == key), 0 for None
PositionNone(entries, key) == 0
Position(entries, key) ==
    LET S == {i \in 1..Len(entries) : entries[i].key = key}
    IN IF S = {} THEN 0 ELSE CHOOSE i \in S : \A j \in S : i <= j

RemoveAt(s, i) == SubSeq(s, 1, i - 1) \o SubSeq(s, i + 1, Len(s))

\* prune_index_and_frames: pop from the tail while more than the cap remain,
\* removing each popped entry's directory
PrunedKeepAll(entries) == entries
Pruned(entries) == SubSeq(entries, 1, Min(Len(entries), MAX_CACHED_IMAGES))
Evicted(entries) ==
    {entries[i].id : i \in (Len(Pruned(entries)) + 1)..Len(entries)}

\* the cache after write_cache_index(idx) for the pruned idx
WithIndex(entries) ==
    [cache EXCEPT !.index = [state |-> "ok", entries |-> Pruned(entries)],
                  !.dirs = cache.dirs \ Evicted(entries),
                  !.removed = cache.removed \cup (cache.dirs \cap Evicted(entries)),
                  !.fs = RemoveEntryDirs(cache.fs, Evicted(entries))]

\* the id record_cached_image last returned for each key
Issue(key, id) ==
    [k \in DOMAIN cache.issued \cup {key} |-> IF k = key THEN id ELSE cache.issued[k]]

CacheIdle == pc = "idle" /\ cache.aw.step \in {"idle", "stopped"}

\* record_cached_image
Record(spec) ==
    /\ CacheIdle
    /\ budget > 0
    /\ budget' = budget - 1
    /\ LET k == compute_image_key(spec)
           idx == read_cache_index
           pos == Position(idx.val, k.val)
       IN IF ~k.ok
          THEN cache' = [cache EXCEPT !.ret = [op |-> "record", spec |-> Some(spec),
                                               key |-> k, val |-> k]]
          ELSE IF ~idx.ok
          THEN cache' = [cache EXCEPT !.ret = [op |-> "record", spec |-> Some(spec),
                                               key |-> k, val |-> idx]]
          ELSE IF pos # 0
          THEN LET e == idx.val[pos]
               IN cache' = [WithIndex(<<e>> \o RemoveAt(idx.val, pos)) EXCEPT
                              !.fresh = FALSE,
                              !.cur_id = Some(e.id),
                              !.issued = Issue(k.val, e.id),
                              !.ret = [op |-> "record", spec |-> Some(spec), key |-> k, val |-> Ok(e.id)]]
          ELSE cache' = [WithIndex(<<[id |-> cache.clock, key |-> k.val]>> \o idx.val)
                              EXCEPT
                              !.clock = cache.clock + 1,
                              !.cur_id = Some(cache.clock),
                              !.issued = Issue(k.val, cache.clock),
                              !.ret = [op |-> "record", spec |-> Some(spec), key |-> k,
                                       val |-> Ok(cache.clock)]]
    /\ UNCHANGED <<current_json, globals, inst, blend, outputs, policy, conn_ok, surfaces, current, comp, pc, op,
                   result, now>>

\* find_cached_entry_id
Find(spec) ==
    /\ CacheIdle
    /\ LET k == compute_image_key(spec)
           idx == read_cache_index
           pos == Position(idx.val, k.val)
       IN IF ~k.ok
          THEN cache' = [cache EXCEPT !.ret = [op |-> "find", spec |-> Some(spec),
                                               key |-> k, val |-> k]]
          ELSE IF ~idx.ok
          THEN cache' = [cache EXCEPT !.ret = [op |-> "find", spec |-> Some(spec),
                                               key |-> k, val |-> idx]]
          ELSE IF pos # 0
          THEN cache' = [cache EXCEPT
                           !.last_match = Some(idx.val[pos].id),
                           !.ret = [op |-> "find", spec |-> Some(spec), key |-> k,
                                    val |-> Ok(Some(idx.val[pos].id))]]
          ELSE cache' = [cache EXCEPT !.ret = [op |-> "find", spec |-> Some(spec),
                                               key |-> k, val |-> Ok(None)]]
    /\ UNCHANGED <<current_json, globals, inst, blend, outputs, policy, conn_ok, surfaces, current, comp, pc, op,
                   result, now, budget>>

\* the image file is edited: its size or its modification time changes
Touch(f, field) ==
    /\ CacheIdle
    /\ cache.edits < MaxEdits
    /\ IsSome(cache.meta[f])
    /\ cache' = [cache EXCEPT
                   !.edits = cache.edits + 1,
                   !.meta[f] = Some([Unwrap(cache.meta[f]) EXCEPT
                                       ![field] = Unwrap(cache.meta[f])[field] + 1])]
    /\ UNCHANGED <<current_json, globals, inst, blend, outputs, policy, conn_ok, surfaces, current, comp, pc, op,
                   result, now, budget>>

\* store_frame under the id record_cached_image returned, with atomic_write
\* run to its end
Store(si, w, h, frame) ==
    /\ CacheIdle
    /\ IsSome(cache.cur_id)
    /\ cache.ret.op \in {"record", "store"}
    /\ LET id == Unwrap(cache.cur_id)
           p == frame_path(id, si, w, h)
       IN cache' = [cache EXCEPT
                      !.dirs = cache.dirs \cup {id},
                      !.fs = WriteFile(RemoveFile(cache.fs, TmpPath(p)), p,
                                       FrameBytes(frame)),
                      !.ret = [op |-> "store", spec |-> None, key |-> Ok(p), val |-> Ok(id)]]
    /\ UNCHANGED <<current_json, globals, inst, blend, outputs, policy, conn_ok, surfaces, current, comp, pc, op,
                   result, now, budget>>

\* load_frame
load_frame(id, si, w, h) ==
    LET p == frame_path(id, si, w, h)
    IN IF p \notin DOMAIN cache.fs THEN Ok(None)
       ELSE IF Len(cache.fs[p]) # w * h * 4 THEN Ok(None)
       ELSE Ok(Some(BytesFrame(cache.fs[p])))

Load(id, si, w, h) ==
    /\ CacheIdle
    /\ cache' = [cache EXCEPT
                   !.ret = [op |-> "load", spec |-> None, key |-> Ok(frame_path(id, si, w, h)),
                            val |-> load_frame(id, si, w, h)]]
    /\ UNCHANGED <<current_json, globals, inst, blend, outputs, policy, conn_ok, surfaces, current, comp, pc, op,
                   result, now, budget>>

\* what else can happen to the cache directory: the index is overwritten
\* with something that does not parse, a frame file is cut short or removed;
\* ret describes a call made against the directory as it is, so it is
\* forgotten
CorruptIndex ==
    /\ CacheIdle
    /\ cache.index.state # "corrupt"
    /\ cache' = [cache EXCEPT !.index.state = "corrupt", !.ret = NoRet]
    /\ UNCHANGED <<current_json, globals, inst, blend, outputs, policy, conn_ok, surfaces, current, comp, pc, op,
                   result, now, budget>>

TruncateFrame(p) ==
    /\ CacheIdle
    /\ p \in DOMAIN cache.fs
    /\ Len(cache.fs[p]) > 0
    /\ cache' = [cache EXCEPT !.fs[p] = SubSeq(cache.fs[p], 1, Len(cache.fs[p]) - 1),
                               !.ret = NoRet]
    /\ UNCHANGED <<current_json, globals, inst, blend, outputs, policy, conn_ok, surfaces, current, comp, pc, op,
                   result, now, budget>>

RemoveFrame(p) ==
    /\ CacheIdle
    /\ p \in DOMAIN cache.fs
    /\ cache' = [cache EXCEPT !.fs = RemoveFile(cache.fs, p), !.ret = NoRet]
    /\ UNCHANGED <<current_json, globals, inst, blend, outputs, policy, conn_ok, surfaces, current, comp, pc, op,
                   result, now, budget>>

\* ---- atomic_write, one file system call at a time
\* store_frame up to atomic_write's create_dir_all
AwBegin(si, w, h, frame) ==
    /\ CacheIdle
    /\ IsSome(cache.cur_id)
    /\ LET id == Unwrap(cache.cur_id)
           p == frame_path(id, si, w, h)
       IN cache' = [cache EXCEPT
                      !.dirs = cache.dirs \cup {id},
                      !.aw = [step |-> "create", target |-> p,
                              bytes |-> FrameBytes(frame),
                              prev |-> IF p \in DOMAIN cache.fs THEN Some(cache.fs[p])
                                       ELSE None]]
    /\ UNCHANGED <<current_json, globals, inst, blend, outputs, policy, conn_ok, surfaces, current, comp, pc, op,
                   result, now, budget>>

\* fs::File::create(&tmp): the file exists and is empty
AwCreate ==
    /\ cache.aw.step = "create"
    /\ cache' = [cache EXCEPT
                   !.fs = WriteFile(cache.fs, TmpPath(cache.aw.target), <<>>),
                   !.aw.step = "write"]
    /\ UNCHANGED <<current_json, globals, inst, blend, outputs, policy, conn_ok, surfaces, current, comp, pc, op,
                   result, now, budget>>

\* one write(2) of write_all: the next n bytes reach the file
AwWrite(n) ==
    /\ cache.aw.step = "write"
    /\ LET t == TmpPath(cache.aw.target)
           have == Len(cache.fs[t])
       IN /\ n >= 1
          /\ have + n <= Len(cache.aw.bytes)
          /\ cache' = [cache EXCEPT
                         !.fs[t] = cache.fs[t] \o SubSeq(cache.aw.bytes, have + 1, have + n),
                         !.aw.step = IF have + n = Len(cache.aw.bytes) THEN "rename"
                                     ELSE "write"]
    /\ UNCHANGED <<current_json, globals, inst, blend, outputs, policy, conn_ok, surfaces, current, comp, pc, op,
                   result, now, budget>>

\* write_all fails (disk full): atomic_write returns the error
AwWriteFail ==
    /\ cache.aw.step = "write"
    /\ cache' = [cache EXCEPT
                   !.aw.step = "idle",
                   !.ret = [op |-> "store", spec |-> None, key |-> Ok(cache.aw.target),
                            val |-> Err("write tmp")]]
    /\ UNCHANGED <<current_json, globals, inst, blend, outputs, policy, conn_ok, surfaces, current, comp, pc, op,
                   result, now, budget>>

\* fs::rename(&tmp, path)
AwRename ==
    /\ cache.aw.step = "rename"
    /\ LET p == cache.aw.target
           t == TmpPath(p)
       IN cache' = [cache EXCEPT
                      !.fs = IF t = p THEN cache.fs
                             ELSE RemoveFile(WriteFile(cache.fs, p, cache.fs[t]), t),
                      !.aw.step = "idle",
                      !.ret = [op |-> "store", spec |-> None, key |-> Ok(p),
                               val |-> Ok(Unwrap(cache.cur_id))]]
    /\ UNCHANGED <<current_json, globals, inst, blend, outputs, policy, conn_ok, surfaces, current, comp, pc, op,
                   result, now, budget>>

\* the process stops inside atomic_write and is started again later; what
\* is on disk stays
Crash ==
    /\ cache.aw.step \in {"create", "write", "rename"}
    /\ cache' = [cache EXCEPT !.aw.step = "stopped", !.cur_id = None]
    /\ UNCHANGED <<current_json, globals, inst, blend, outputs, policy, conn_ok, surfaces, current, comp, pc, op,
                   result, now, budget>>

IdleOp ==
    [kind |-> "none", spec |-> None, output |-> None, attempt |-> 0,
     phase |-> "", i |-> 0, from_frames |-> <<>>, to_frames |-> <<>>, tt |-> 0,
     frames |-> 0, welapsed |-> 0, inpump |-> FALSE, gotev |-> FALSE,
     any |-> FALSE, cached |-> FALSE, cache_rows |-> None,
     commits |-> <<>>, resurrected |-> {}, cur_before |-> None, named |-> {},
     calls |-> 0, first_err |-> ""]

NoResult == [op |-> "none", status |-> "none", spec |-> None, output |-> None,
             commits |-> <<>>, resurrected |-> {}, err |-> "", elapsed |-> 0,
             before |-> <<>>, selected |-> {}, from |-> <<>>, cur_before |-> None,
             named |-> {}, calls |-> 0, first_err |-> "", cached |-> FALSE,
             cache_rows |-> None]

NewComp == [held |-> <<FALSE, FALSE>>, stale |-> <<FALSE, FALSE>>, cbs |-> 0,
            pinned |-> 0 - 1, shown |-> None, closed |-> FALSE]

\* the engine replaces or drops a surface's wl_buffers without destroying
\* them: those the compositor holds stay alive on its side, with their
\* (surface index, slot index) user data, and will still be released
Supersede(c) ==
    [c EXCEPT !.stale = <<c.stale[1] \/ c.held[1], c.stale[2] \/ c.held[2]>>,
              !.held = <<FALSE, FALSE>>]

\* cases: the <<policy, number of outputs, number of requests>> triples to
\* start from
InitDisk(cases, gl, disk) ==
    /\ current_json = None
    /\ globals \in gl
    /\ \E c \in cases :
          /\ policy = c[1]
          /\ outputs = [i \in 1..c[2] |->
                          [name |-> Some(OutputNames[i]),
                           description |-> Some(OutputDescriptions[i])]]
          /\ comp = [i \in 1..c[2] |-> NewComp]
          /\ budget = c[3]
    /\ conn_ok = TRUE
    /\ surfaces = <<>>
    /\ current = None
    /\ pc = "idle"
    /\ op = IdleOp
    /\ result = NoResult
    /\ now = 0
    /\ cache = disk
    /\ blend = NoBlend
    /\ inst = NoInst

InitWith(cases, gl) == InitDisk(cases, gl, UnknownCache)

\* the surfaces an operation works on: those a transition captured a from
\* frame for, otherwise the usable rows its output argument selects
Selected ==
    IF op.from_frames # <<>>
    THEN {i \in 1..Len(op.from_frames) : IsSome(op.from_frames[i])}
    ELSE {i \in 1..Len(surfaces) :
            surface_usable(surfaces[i]) /\ surface_selected(surfaces[i], op.output)}

\* the pixels each of those surfaces held when the operation began on it:
\* last_frame if present, otherwise last_colour over the whole surface
FromState ==
    IF op.from_frames # <<>> THEN op.from_frames
    ELSE [i \in 1..Len(surfaces) |->
            IF IsSome(surfaces[i].last_frame) THEN surfaces[i].last_frame
            ELSE Some(SolidFrame(xrgb8888(surfaces[i].last_colour),
                                 NumPixels(surfaces[i])))]

\* the operation returns Ok(()) or Err(err), having made the given number
\* of commits on each surface; the result also keeps what the returning step
\* found: the surface table, the surfaces worked on, their pixels, and
\* current at entry
ReturnWith(status, err, commits) ==
    /\ pc' = "done"
    /\ result' = [op |-> op.kind, status |-> status, spec |-> op.spec,
                  output |-> op.output, commits |-> commits,
                  resurrected |-> op.resurrected, err |-> err, elapsed |-> now,
                  before |-> surfaces, selected |-> Selected, from |-> FromState,
                  cur_before |-> op.cur_before, named |-> op.named,
                  calls |-> op.calls, first_err |-> op.first_err,
                  cached |-> op.cached, cache_rows |-> op.cache_rows]
    /\ op' = IdleOp
    /\ now' = 0

Return(status, err) == ReturnWith(status, err, op.commits)

\* the caller takes the result; the engine is idle again
Finish ==
    /\ pc = "done"
    /\ pc' = "idle"
    /\ result' = NoResult
    /\ UNCHANGED <<budget, current_json, globals, inst, blend, cache, outputs, policy, conn_ok, surfaces, current, comp, op, now>>

\* ------------------------------------------------------------ event handlers
\* Events are dispatched only while the engine reads the socket: inside
\* roundtrip() and inside the pump of the buffer-wait loop.
Dispatching ==
    \/ pc \in {"cfg", "img_rt"}
    \/ pc = "wait" /\ op.inpump

\* the pump of the wait loop remembers that its poll found the socket readable
NoteEvent == IF pc = "wait" THEN [op EXCEPT !.gotev = TRUE] ELSE op

\* wl_output events are dispatched by the same reads of the socket, and by
\* the roundtrips build_engine and ensure_surfaces make before any row exists
OutputDispatching == Dispatching \/ (pc = "idle" /\ surfaces = <<>>)

\* wl_output.name for output i
OutputName(i) ==
    /\ OutputDispatching /\ conn_ok
    /\ i \in 1..N
    /\ outputs[i].name # Some(OutputNames[i])
    /\ outputs' = [outputs EXCEPT ![i].name = Some(OutputNames[i])]
    /\ UNCHANGED <<budget, current_json, globals, inst, blend, cache, policy, conn_ok, surfaces, current, comp, pc, op,
                   result, now>>

\* wl_output.description for output i
OutputDescription(i) ==
    /\ OutputDispatching /\ conn_ok
    /\ i \in 1..N
    /\ outputs[i].description # Some(OutputDescriptions[i])
    /\ outputs' = [outputs EXCEPT ![i].description = Some(OutputDescriptions[i])]
    /\ UNCHANGED <<budget, current_json, globals, inst, blend, cache, policy, conn_ok, surfaces, current, comp, pc, op,
                   result, now>>

\* zwlr_layer_surface_v1.configure for output i's live layer surface (a
\* configure that repeats what the row already records changes nothing and
\* is left out)
Configure(i) ==
    /\ Dispatching /\ conn_ok
    /\ i \in Idx
    /\ surfaces[i].alive /\ ~comp[i].closed
    /\ ~(surfaces[i].configured /\ surfaces[i].width = OutputSize[i][1]
                                /\ surfaces[i].height = OutputSize[i][2])
    /\ surfaces' = [surfaces EXCEPT ![i] =
           [@ EXCEPT !.width = OutputSize[i][1], !.height = OutputSize[i][2],
                     !.configured = TRUE]]
    /\ op' = NoteEvent
    /\ UNCHANGED <<budget, current_json, globals, inst, blend, cache, outputs, policy, conn_ok, current, comp, pc, result, now>>

\* zwlr_layer_surface_v1.configure carrying another size than the surface has:
\* the compositor resizes the layer surface (output mode or scale change)
Resize(i, j) ==
    /\ Dispatching /\ conn_ok
    /\ i \in Idx /\ j \in 1..Len(OutputSize)
    /\ surfaces[i].alive /\ ~comp[i].closed /\ surfaces[i].configured
    /\ <<surfaces[i].width, surfaces[i].height>> # OutputSize[j]
    /\ surfaces' = [surfaces EXCEPT ![i] =
           [@ EXCEPT !.width = OutputSize[j][1], !.height = OutputSize[j][2]]]
    /\ op' = NoteEvent
    /\ UNCHANGED <<budget, current_json, globals, inst, blend, cache, outputs, policy, conn_ok, current, comp, pc, result, now>>

\* zwlr_layer_surface_v1.configure with width 0 and height 0, which the
\* protocol uses to leave the size to the client
ConfigureZero(i) ==
    /\ Dispatching /\ conn_ok
    /\ i \in Idx
    /\ surfaces[i].alive /\ ~comp[i].closed
    /\ ~(surfaces[i].configured /\ surfaces[i].width = 0 /\ surfaces[i].height = 0)
    /\ surfaces' = [surfaces EXCEPT ![i] =
           [@ EXCEPT !.width = 0, !.height = 0, !.configured = TRUE]]
    /\ op' = NoteEvent
    /\ UNCHANGED <<budget, current_json, globals, inst, blend, cache, outputs, policy, conn_ok, current, comp, pc, result, now>>

\* zwlr_layer_surface_v1.closed
Closed(i) ==
    /\ Dispatching /\ conn_ok
    /\ policy = "any"
    /\ i \in Idx
    /\ surfaces[i].alive /\ ~comp[i].closed
    /\ surfaces' = [surfaces EXCEPT ![i] = ClearPacing([@ EXCEPT !.configured = FALSE])]
    /\ comp' = [comp EXCEPT ![i].closed = TRUE]
    /\ op' = NoteEvent
    /\ UNCHANGED <<budget, current_json, globals, inst, blend, cache, outputs, policy, conn_ok, current, pc, result, now>>

\* may the compositor release the buffer in slot which of output i?
MayRelease(i, which) ==
    /\ comp[i].held[which + 1]
    /\ policy # "silent"
    /\ policy = "stuck" => comp[i].pinned # which

\* may it release a superseded buffer created with user data (i, which)?
MayReleaseStale(i, which) ==
    /\ comp[i].stale[which + 1]
    /\ policy # "silent"
    /\ policy = "stuck" => comp[i].pinned # which

\* wl_buffer.release for a buffer created with user data (i, which): the one
\* slot which holds now, or one it held before
Release(i, which) ==
    /\ Dispatching /\ conn_ok
    /\ i \in 1..N
    /\ \/ /\ MayRelease(i, which)
          /\ comp' = [comp EXCEPT ![i].held[which + 1] = FALSE]
       \/ /\ MayReleaseStale(i, which)
          /\ comp' = [comp EXCEPT ![i].stale[which + 1] = FALSE]
    /\ surfaces' = IF i \in Idx
                   THEN [surfaces EXCEPT ![i].buffers = mark_free(@, which)]
                   ELSE surfaces
    /\ op' = NoteEvent
    /\ UNCHANGED <<budget, current_json, globals, inst, blend, cache, outputs, policy, conn_ok, current, pc, result, now>>

\* a Done handler that keeps the callback object
frame_done_keeps_cb(s) ==
    [s EXCEPT !.frame_pending = FALSE, !.frame_callback_ok = TRUE]
\* what the Done handler does to the row
frame_done(s) ==
    [s EXCEPT !.frame_pending = FALSE, !.frame_cb = FALSE,
              !.frame_callback_ok = TRUE]

\* wl_callback.done for a frame callback created with user data i
FrameDone(i) ==
    /\ Dispatching /\ conn_ok
    /\ policy = "any"
    /\ i \in 1..N
    /\ comp[i].cbs > 0
    /\ comp' = [comp EXCEPT ![i].cbs = @ - 1]
    /\ surfaces' = IF i \in Idx
                   THEN [surfaces EXCEPT ![i] = frame_done(@)]
                   ELSE surfaces
    /\ op' = NoteEvent
    /\ UNCHANGED <<budget, current_json, globals, inst, blend, cache, outputs, policy, conn_ok, current, pc, result, now>>

\* the socket breaks (compositor exit): every later flush / roundtrip fails
ConnBreak ==
    /\ conn_ok
    /\ pc \notin {"idle", "done", "ret"}
    /\ conn_ok' = FALSE
    /\ UNCHANGED <<budget, current_json, globals, inst, blend, cache, outputs, policy, surfaces, current, comp, pc, op, result, now>>

\* ------------------------------------------------------------ Engine
\* ensure_surfaces: build one row per output when the table is empty
EnsureSurfacesErr ==
    IF surfaces # <<>> THEN ""
    ELSE IF ~globals.compositor THEN "wl_compositor missing"
    ELSE IF ~globals.layer_shell THEN "zwlr_layer_shell_v1 missing"
    ELSE ""

ensure_surfaces ==
    IF surfaces # <<>> THEN surfaces
    ELSE [i \in 1..N |->
            NewSurface(IF IsSome(outputs[i].name) THEN outputs[i].name
                       ELSE outputs[i].description)]

\* rows of table t that ensure_selected_surfaces_alive re-creates
Resurrected(t, output) ==
    {i \in 1..Len(t) : surface_selected(t[i], output) /\ ~t[i].alive}

ensure_selected_surfaces_alive(t, output) ==
    [i \in 1..Len(t) |->
        IF i \in Resurrected(t, output)
        THEN [ClearPacing(t[i]) EXCEPT
                 !.alive = TRUE, !.width = 0, !.height = 0, !.configured = FALSE,
                 !.stride = 0, !.size_bytes = 0, !.buffers = DefaultDoubleBuffer,
                 !.has_image = FALSE, !.last_frame = None]
        ELSE t[i]]

\* the compositor side of creating a fresh layer surface on output i
CompNewLayer(c) == [Supersede(c) EXCEPT !.cbs = 0, !.shown = None, !.closed = FALSE]

\* the names wl_output.name events have delivered so far
NamedOutputs == {outputs[i].name : i \in {j \in 1..N : IsSome(outputs[j].name)}}

BeginOp(kind, spec, output, res) ==
    [IdleOp EXCEPT !.kind = kind, !.spec = spec, !.output = output,
                   !.commits = [i \in 1..N |-> 0], !.resurrected = res,
                   !.cur_before = current, !.named = NamedOutputs,
                   !.calls = 1]

\* Engine::apply up to the first roundtrip of wait_for_configured; nth counts
\* the calls the daemon has made for one request, first is what the call
\* before it failed with
ApplyCall(spec, nth, first) ==
    /\ LET err == EnsureSurfacesErr
           t1 == ensure_surfaces
           err2 == IF ~globals.compositor THEN "wl_compositor missing"
                   ELSE IF ~globals.layer_shell THEN "zwlr_layer_shell_v1 missing"
                   ELSE ""
           res == Resurrected(t1, spec.output)
       IN IF err # "" \/ err2 # ""
          THEN /\ op' = IdleOp
               /\ pc' = "done"
               /\ result' = [NoResult EXCEPT !.op = "apply", !.status = "err",
                                !.spec = Some(spec), !.output = spec.output,
                                !.err = IF err # "" THEN err ELSE err2,
                                !.cur_before = current,
                                !.named = NamedOutputs,
                                !.calls = nth, !.first_err = first]
               /\ UNCHANGED <<surfaces, comp>>
          ELSE /\ surfaces' = ensure_selected_surfaces_alive(t1, spec.output)
               /\ comp' = [i \in 1..N |->
                             IF i \in res THEN CompNewLayer(comp[i]) ELSE comp[i]]
               /\ op' = [BeginOp("apply", Some(spec), spec.output, res) EXCEPT
                            !.calls = nth, !.first_err = first]
               /\ pc' = "cfg"
               /\ result' = NoResult
    /\ now' = 0
    /\ UNCHANGED <<current_json, globals, inst, blend, cache, outputs, policy, conn_ok, current>>

Apply(spec) ==
    /\ pc = "idle"
    /\ budget > 0
    /\ budget' = budget - 1
    /\ ApplyCall(spec, 1, "")

\* Engine::unset up to the first roundtrip of wait_for_configured; nth and
\* first as in ApplyCall
UnsetCall(output, nth, first) ==
    /\ IF EnsureSurfacesErr # ""
       THEN /\ op' = IdleOp
            /\ pc' = "done"
            /\ result' = [NoResult EXCEPT !.op = "unset", !.status = "err",
                             !.output = output, !.err = EnsureSurfacesErr,
                             !.cur_before = current,
                             !.named = NamedOutputs, !.calls = nth,
                             !.first_err = first]
            /\ UNCHANGED surfaces
       ELSE /\ surfaces' = ensure_surfaces
            /\ op' = [BeginOp("unset", None, output, {}) EXCEPT
                         !.calls = nth, !.first_err = first]
            /\ pc' = "cfg"
            /\ result' = NoResult
    /\ now' = 0
    /\ UNCHANGED <<current_json, globals, inst, blend, cache, outputs, policy, conn_ok, current, comp>>

Unset(output) ==
    /\ pc = "idle"
    /\ budget > 0
    /\ budget' = budget - 1
    /\ UnsetCall(output, 1, "")

\* Engine::stop
Stop ==
    /\ pc = "idle"
    /\ budget > 0
    /\ budget' = budget - 1
    /\ current' = None
    /\ surfaces' = <<>>
    /\ comp' = [i \in 1..N |-> [Supersede(comp[i]) EXCEPT
                                     !.cbs = 0, !.shown = None, !.closed = FALSE]]
    /\ pc' = "done"
    /\ result' = [NoResult EXCEPT !.op = "stop", !.status = "ok"]
    /\ UNCHANGED <<current_json, globals, inst, blend, cache, outputs, policy, conn_ok, op, now>>

\* a test no surface passes
ConfiguredNever(s) == FALSE

ConfiguredNonZero(s) == s.configured /\ s.width > 0 /\ s.height > 0

\* where the caller of wait_for_configured goes on: apply_image begins with
\* a roundtrip of its own
AfterConfigured ==
    IF op.kind = "apply" /\ Unwrap(op.spec).kind = "image" THEN "img_rt" ELSE "body"

\* one iteration of wait_for_configured's loop, after its roundtrip
\* dispatched whatever the compositor had sent
WaitForConfigured ==
    /\ pc = "cfg"
    /\ LET alive == {i \in Idx : surfaces[i].alive}
           all_configured == \A i \in alive : ConfiguredNonZero(surfaces[i])
           any_configured == \E i \in alive : ConfiguredNonZero(surfaces[i])
       IN IF ~conn_ok
          THEN Return("err", "roundtrip")
          ELSE IF alive = {} \/ all_configured
          THEN /\ pc' = AfterConfigured /\ op' = [op EXCEPT !.attempt = 0]
               /\ UNCHANGED <<result, now>>
          ELSE IF op.attempt + 1 < CONFIGURE_ATTEMPTS
          THEN /\ pc' = "cfg" /\ op' = [op EXCEPT !.attempt = @ + 1]
               /\ UNCHANGED <<result, now>>
          ELSE IF ~any_configured
          THEN Return("err", "No alive surfaces configured after waiting")
          ELSE /\ pc' = AfterConfigured /\ op' = [op EXCEPT !.attempt = 0]
               /\ UNCHANGED <<result, now>>
    /\ UNCHANGED <<budget, current_json, globals, inst, blend, cache, outputs, policy, conn_ok, surfaces, current, comp>>

\* a global unset that forgets the frame and keeps has_image
clear_state_keeps_image(s) == [ClearPacing(s) EXCEPT !.last_frame = None]

\* the clear_state branch of Engine::unset (output = None)
clear_state(s) == [ClearPacing(s) EXCEPT !.has_image = FALSE, !.last_frame = None]

\* the rest of Engine::unset, after wait_for_configured returned Ok
UnsetBody ==
    /\ pc = "body" /\ op.kind = "unset"
    /\ LET output == op.output
           found == \E i \in Idx : surfaces[i].output_name = output
           sel == {i \in Idx : surface_selected(surfaces[i], output)}
           any == sel # {}
           t1 == [i \in Idx |->
                    IF i \notin sel THEN surfaces[i]
                    ELSE IF IsSome(output)
                    THEN [ClearPacing(surfaces[i]) EXCEPT
                            !.alive = FALSE, !.configured = FALSE, !.width = 0,
                            !.height = 0, !.stride = 0, !.size_bytes = 0,
                            !.buffers = DefaultDoubleBuffer, !.has_image = FALSE,
                            !.last_frame = None]
                    ELSE clear_state(surfaces[i])]
           c1 == [i \in 1..N |->
                    IF IsSome(output) /\ i \in sel /\ surfaces[i].alive
                    THEN [Supersede(comp[i]) EXCEPT !.cbs = 0, !.shown = None]
                    ELSE comp[i]]
       IN IF IsSome(output) /\ ~found
          THEN /\ Return("err", "unknown output")
               /\ UNCHANGED <<surfaces, comp, current>>
          ELSE /\ surfaces' = t1
               /\ comp' = c1
               /\ IF ~conn_ok
                  THEN /\ Return("err", "flush") /\ UNCHANGED current
                  ELSE /\ current' = IF IsSome(output) THEN current ELSE None
                       /\ IF ~any /\ surfaces # <<>>
                          THEN Return("err", "no outputs matched for unset")
                          ELSE Return("ok", "")
    /\ UNCHANGED <<budget, current_json, globals, inst, blend, cache, outputs, policy, conn_ok>>

\* ------------------------------------------------------------ buffers, commit
\* a buffer check that compares the byte size alone
ensure_buffers_for_surface_indexed_size_only(s) ==
    LET stride == s.width * 4
        size_bytes == stride * s.height
        needs_recreate == ~both_ready(s.buffers) \/ s.size_bytes # size_bytes
    IN IF ~needs_recreate THEN s
       ELSE [ClearPacing(s) EXCEPT
               !.buffers = [a |-> [ready |-> TRUE, busy |-> FALSE],
                            b |-> [ready |-> TRUE, busy |-> FALSE], current |-> 0],
               !.stride = stride, !.size_bytes = size_bytes]
ensure_buffers_for_surface_indexed(s) ==
    LET stride == s.width * 4
        size_bytes == stride * s.height
        needs_recreate == ~both_ready(s.buffers) \/ s.size_bytes # size_bytes
                          \/ s.stride # stride
    IN IF ~needs_recreate THEN s
       ELSE [ClearPacing(s) EXCEPT
               !.buffers = [a |-> [ready |-> TRUE, busy |-> FALSE],
                            b |-> [ready |-> TRUE, busy |-> FALSE], current |-> 0],
               !.stride = stride, !.size_bytes = size_bytes]

ensure_buffers_for_all_surfaces(t) ==
    [i \in 1..Len(t) |->
        IF t[i].alive /\ t[i].configured /\ t[i].width # 0 /\ t[i].height # 0
        THEN ensure_buffers_for_surface_indexed(t[i])
        ELSE t[i]]

\* the compositor side of ensure_buffers_for_surface_indexed(s): buffers that
\* are re-created supersede the ones it holds
CompEnsure(c, s) ==
    IF ~both_ready(s.buffers) \/ s.size_bytes # s.width * 4 * s.height
       \/ s.stride # s.width * 4
    THEN Supersede(c) ELSE c
CompEnsureAll(t) ==
    [i \in 1..N |->
        IF i \in 1..Len(t) /\ t[i].alive /\ t[i].configured
           /\ t[i].width # 0 /\ t[i].height # 0
        THEN CompEnsure(comp[i], t[i])
        ELSE comp[i]]

\* a commit that takes frame callbacks to work as soon as it requests one
commit_surface_paced(s) ==
    LET s1 == IF ~s.frame_pending
              THEN [s EXCEPT !.frame_cb = TRUE, !.frame_pending = TRUE,
                             !.frame_callback_ok = TRUE]
              ELSE s
    IN IF current_buffer(s1.buffers)
       THEN [s1 EXCEPT !.buffers = swap(mark_current_busy(@))]
       ELSE s1
commit_surface(s) ==
    LET s1 == IF ~s.frame_pending
              THEN [s EXCEPT !.frame_cb = TRUE, !.frame_pending = TRUE]
              ELSE s
    IN IF current_buffer(s1.buffers)
       THEN [s1 EXCEPT !.buffers = swap(mark_current_busy(@))]
       ELSE s1

\* what the compositor sees of commit_surface(s) with painted in the buffer
\* a commit that requests a frame callback every time
CompCommitAlwaysFrame(c, s, painted) ==
    LET c1 == [c EXCEPT !.cbs = Min(@ + 1, CbCap)]
    IN IF current_buffer(s.buffers)
       THEN [c1 EXCEPT !.held[s.buffers.current + 1] = TRUE,
                       !.shown = Some(painted),
                       !.pinned = IF policy = "stuck" /\ @ = 0 - 1
                                  THEN s.buffers.current ELSE @]
       ELSE c1
CompCommit(c, s, painted) ==
    LET c1 == IF ~s.frame_pending THEN [c EXCEPT !.cbs = Min(@ + 1, CbCap)] ELSE c
    IN IF current_buffer(s.buffers)
       THEN [c1 EXCEPT !.held[s.buffers.current + 1] = TRUE,
                       !.shown = Some(painted),
                       !.pinned = IF policy = "stuck" /\ @ = 0 - 1
                                  THEN s.buffers.current ELSE @]
       ELSE c1

CountCommit(n, s) == IF current_buffer(s.buffers) THEN Min(n + 1, CommitCap) ELSE n

paint_frame_u32(s, frame) == CopyInto(DstLen(s), frame)

\* ------------------------------------------------------------ colour.rs
surface_matches_output(s, output) ==
    IF ~IsSome(s.output_name) THEN ~IsSome(output)
    ELSE IF IsSome(output) THEN s.output_name = output ELSE TRUE

\* apply_solid_on reaches its paint for row s
SolidPaints(s, output) ==
    /\ surface_usable(s)
    /\ surface_matches_output(s, output)
    /\ ~(current_is_busy(s.buffers) /\ current_is_busy(swap_to_free(s.buffers)))

SolidPrepared(s) ==
    IF current_is_busy(s.buffers) THEN [s EXCEPT !.buffers = swap_to_free(@)] ELSE s

apply_solid_on(t, target, output) ==
    [i \in 1..Len(t) |->
        IF ~SolidPaints(t[i], output)
        THEN (IF surface_usable(t[i]) /\ surface_matches_output(t[i], output)
              THEN SolidPrepared(t[i]) ELSE t[i])
        ELSE [commit_surface(SolidPrepared(t[i])) EXCEPT
                !.last_colour = target, !.has_image = FALSE,
                !.last_frame = Some(SolidFrame(xrgb8888(target), NumPixels(t[i])))]]

\* from_frames of transition_to_on
CaptureFrom(t, output) ==
    [i \in 1..Len(t) |->
        IF surface_usable(t[i]) /\ surface_matches_output(t[i], output)
        THEN (IF IsSome(t[i].last_frame) THEN t[i].last_frame
              ELSE Some(SolidFrame(xrgb8888(t[i].last_colour), NumPixels(t[i]))))
        ELSE None]

\* a scan that reports a mismatch whatever the frames hold
NeedsTransitionAlways(from_frames, to_px) == TRUE

\* the mismatch scan of transition_to_on
NeedsTransition(from_frames, to_px) ==
    \E i \in 1..Len(from_frames) :
        /\ IsSome(from_frames[i])
        /\ \E k \in 1..Len(Unwrap(from_frames[i])) : Unwrap(from_frames[i])[k] # to_px

NoopUpdate(t, target, output) ==
    [i \in 1..Len(t) |->
        IF surface_matches_output(t[i], output)
        THEN [t[i] EXCEPT !.last_colour = target, !.has_image = FALSE]
        ELSE t[i]]

\* a return that leaves current empty
ApplyOkUnset ==
    /\ current' = None
    /\ Return("ok", "")

\* Engine::apply returns Ok(()): the only assignment of Some to current
ApplyOk ==
    /\ current' = op.spec
    /\ Return("ok", "")

\* Engine::apply for a Colour spec, after wait_for_configured returned Ok:
\* ensure_buffers_for_all_surfaces, then apply_solid_on or the prologue of
\* transition_to_on
ApplyColour ==
    /\ pc = "body" /\ op.kind = "apply" /\ Unwrap(op.spec).kind = "colour"
    /\ LET spec == Unwrap(op.spec)
           out == spec.output
           t1 == ensure_buffers_for_all_surfaces(surfaces)
           c1 == CompEnsureAll(surfaces)
           painted == {i \in Idx : SolidPaints(t1[i], out)}
           from_frames == CaptureFrom(t1, out)
           any_selected == \E i \in Idx : IsSome(from_frames[i])
           to_px == xrgb8888(spec.colour)
       IN IF ~globals.shm
          THEN /\ Return("err", "wl_shm missing")
               /\ UNCHANGED <<surfaces, comp, current>>
          ELSE IF spec.transition.kind = "None"
          THEN /\ surfaces' = apply_solid_on(t1, spec.colour, out)
               /\ comp' = [i \in 1..N |->
                            IF i \in painted
                            THEN CompCommit(c1[i], SolidPrepared(t1[i]),
                                   paint_frame_u32(t1[i],
                                      SolidFrame(to_px, NumPixels(t1[i]))))
                            ELSE c1[i]]
               /\ LET commits == [i \in 1..N |-> IF i \in painted THEN 1 ELSE 0]
                  IN IF painted # {} /\ ~conn_ok
                     THEN /\ ReturnWith("err", "flush", commits)
                          /\ UNCHANGED current
                     ELSE /\ current' = op.spec
                          /\ ReturnWith("ok", "", commits)
          ELSE IF ~any_selected
          THEN /\ surfaces' = t1
               /\ comp' = c1
               /\ ApplyOk
          ELSE IF ~NeedsTransition(from_frames, to_px)
          THEN /\ surfaces' = NoopUpdate(t1, spec.colour, out)
               /\ comp' = c1
               /\ ApplyOk
          ELSE /\ surfaces' = t1
               /\ comp' = c1
               /\ op' = [op EXCEPT !.from_frames = from_frames, !.phase = "tick"]
               /\ pc' = "anim"
               /\ now' = 0
               /\ UNCHANGED <<current, result>>
    /\ UNCHANGED <<budget, current_json, globals, inst, blend, cache, outputs, policy, conn_ok>>

\* ------------------------------------------------------------ image.rs
surface_matches_output_surface(s, output) ==
    IF IsSome(output) THEN s.output_name = output ELSE TRUE

ImageSelected(s, output) ==
    /\ s.configured /\ s.width # 0 /\ s.height # 0
    /\ surface_matches_output_surface(s, output)

\* load_rgba: the decoded image, or None when the file does not decode
load_rgba(path) == IF path = WallPng THEN Some(GoodImage) ELSE None

\* cache::load_last_frame for row s under a matching cache entry: the frame
\* stored for that surface index and size
load_last_frame(s, bg) == Some(render_final_frame_u32(s.width, s.height, GoodImage, bg))

\* find_cached_entry_id's return value
find_cached_entry_id(spec) ==
    LET k == compute_image_key(spec)
        idx == read_cache_index
        pos == Position(idx.val, k.val)
    IN IF ~k.ok THEN k
       ELSE IF ~idx.ok THEN idx
       ELSE IF pos # 0 THEN Ok(Some(idx.val[pos].id))
       ELSE Ok(None)

\* cached_image_matches(spec).unwrap_or(false)
cached_image_matches(spec) ==
    LET r == find_cached_entry_id(spec) IN r.ok /\ IsSome(r.val)

\* cache::load_last_frame(si, w, h) after a match: the frame file of the
\* matched entry for row i of table t
load_matched_frame(spec, t, i) ==
    load_frame(Unwrap(find_cached_entry_id(spec).val), i - 1, t[i].width, t[i].height).val

\* cache_any && cache_all over the selected rows sel of table t
cache_valid_any(spec, t, sel) ==
    /\ cached_image_matches(spec)
    /\ \E i \in sel : IsSome(load_matched_frame(spec, t, i))
cache_valid(spec, t, sel) ==
    /\ cached_image_matches(spec)
    /\ sel # {}
    /\ \A i \in sel : IsSome(load_matched_frame(spec, t, i))

ImageFrom(t, output) ==
    [i \in 1..Len(t) |->
        IF ImageSelected(t[i], output)
        THEN (IF IsSome(t[i].last_frame) THEN t[i].last_frame
              ELSE Some(SolidFrame(xrgb8888(t[i].last_colour), NumPixels(t[i]))))
        ELSE None]

ImageTo(t, output, src, bg) ==
    [i \in 1..Len(t) |->
        IF ImageSelected(t[i], output)
        THEN Some(render_final_frame_u32(t[i].width, t[i].height, src, bg))
        ELSE None]

\* apply_image after its roundtrip: buffers for the selected surfaces, the
\* cache decision, the decode, and the prologue of the chosen presenter
ApplyImage ==
    /\ pc = "img_rt" /\ op.kind = "apply"
    /\ LET spec == Unwrap(op.spec)
           out == spec.output
           t1 == [i \in Idx |->
                    IF ImageSelected(surfaces[i], out)
                    THEN ensure_buffers_for_surface_indexed(surfaces[i])
                    ELSE surfaces[i]]
           sel == {i \in Idx : ImageSelected(t1[i], out)}
           src == load_rgba(spec.path)
           tracked == cache.index.state # "unknown"
       IN \E hit \in (IF tracked THEN {cache_valid(spec, t1, sel)}
                     ELSE IF IsSome(src) /\ sel # {} THEN BOOLEAN ELSE {FALSE}) :
          IF ~conn_ok
          THEN /\ Return("err", "apply_image roundtrip")
               /\ UNCHANGED <<surfaces, current>>
          ELSE IF ~globals.shm
          THEN /\ Return("err", "wl_shm missing")
               /\ UNCHANGED <<surfaces, current>>
          ELSE IF ~hit /\ ~IsSome(src)
          THEN /\ surfaces' = t1
               /\ Return("err", "decode image")
               /\ UNCHANGED current
          ELSE IF ~hit /\ spec.transition.kind # "None" /\ sel = {}
          THEN /\ surfaces' = t1
               /\ Return("err", "no usable outputs")
               /\ UNCHANGED current
          ELSE /\ surfaces' = t1
               /\ op' = [op EXCEPT
                     !.cached = hit,
                     !.cache_rows = Some(sel),
                     !.from_frames = ImageFrom(t1, out),
                     !.to_frames = IF hit
                                   THEN [i \in Idx |->
                                           IF i \notin sel THEN None
                                           ELSE IF tracked
                                           THEN load_matched_frame(spec, t1, i)
                                           ELSE load_last_frame(t1[i], spec.colour)]
                                   ELSE IF spec.transition.kind = "None"
                                   THEN [i \in Idx |-> None]
                                   ELSE ImageTo(t1, out, Unwrap(src), spec.colour),
                     !.phase = IF spec.transition.kind = "None" THEN "now" ELSE "frame0",
                     !.tt = 0, !.i = 0, !.any = FALSE]
               /\ pc' = "pass"
               /\ now' = 0
               /\ UNCHANGED <<current, result>>
    /\ cache' = IF conn_ok /\ globals.shm /\ cache.index.state # "unknown"
                   /\ cached_image_matches(Unwrap(op.spec))
                THEN [cache EXCEPT
                        !.last_match = find_cached_entry_id(Unwrap(op.spec)).val]
                ELSE cache
    /\ comp' = IF conn_ok /\ globals.shm
               THEN [i \in 1..N |->
                       IF i \in Idx /\ ImageSelected(surfaces[i], Unwrap(op.spec).output)
                       THEN CompEnsure(comp[i], surfaces[i])
                       ELSE comp[i]]
               ELSE comp
    /\ UNCHANGED <<budget, current_json, globals, inst, blend, outputs, policy, conn_ok>>

\* ------------------------------------------------------------ frame passes
\* Every presenter is a sequence of passes over the surface table; a pass
\* visits each eligible surface, waits for a buffer, paints and commits.
\*   "tick"   one blended / wiped frame at progress op.tt
\*   "frame0" the frame at progress 0 an image transition presents first
\*   "final"  the exact target frame, recorded as last_frame
\*   "now"    an image presented without transition

IsImage == Unwrap(op.spec).kind = "image"

Duration(spec) ==
    IF spec.kind = "colour" THEN Max(spec.transition.duration, MIN_COLOUR_DURATION)
    ELSE Max(spec.transition.duration, MIN_IMAGE_DURATION)

\* a pass that leaves out a surface still waiting for its frame callback
EligibleWhenPaced(s, i) ==
    /\ ~(s.frame_callback_ok /\ s.frame_pending)
    /\ surface_usable(s)
    /\ LET spec == Unwrap(op.spec)
       IN IF spec.kind = "colour" THEN surface_matches_output(s, spec.output)
          ELSE surface_matches_output_surface(s, spec.output)
Eligible(s, i) ==
    LET spec == Unwrap(op.spec)
    IN IF spec.kind = "colour"
       THEN /\ surface_usable(s) /\ surface_matches_output(s, spec.output)
            /\ op.phase = "tick" => IsSome(op.from_frames[i])
       ELSE /\ surface_usable(s) /\ surface_matches_output_surface(s, spec.output)
            /\ op.phase \in {"tick", "frame0"} =>
                  IsSome(op.from_frames[i]) /\ IsSome(op.to_frames[i])
            /\ op.phase = "final" => IsSome(op.to_frames[i])
            /\ (op.phase = "now" /\ op.cached) => IsSome(op.to_frames[i])

\* top of a render loop: read the clock, stop at the duration, otherwise
\* compute the eased progress of this frame
AnimTop ==
    /\ pc = "anim"
    /\ LET spec == Unwrap(op.spec)
           duration == Duration(spec)
       IN IF now >= duration
          THEN op' = [op EXCEPT !.phase = "final", !.i = 0, !.any = FALSE]
          ELSE op' = [op EXCEPT !.phase = "tick", !.i = 0, !.tt = TT(now, duration)]
    /\ pc' = "pass"
    /\ UNCHANGED <<budget, current_json, globals, inst, blend, cache, outputs, policy, conn_ok, surfaces, current, comp, result, now>>

\* when the image loop wakes for its next frame: start + frame_dt * frames,
\* if that is still ahead and before the end of the transition
NextFrameAt(frames, duration) ==
    LET next == (frames * 1000) \div TARGET_FPS
    IN IF next > now /\ next < duration THEN next ELSE now

\* advance a pass to its next eligible surface, or end the pass.  A tick that
\* found no surface to paint changed nothing, and neither will the ticks after
\* it (nothing is dispatched between them): the loop spins to its deadline.
PassNext ==
    /\ pc = "pass"
    /\ LET rest == {j \in Idx : j > op.i /\ Eligible(surfaces[j], j)}
           spec == Unwrap(op.spec)
           bails == IsImage /\ ~op.cached /\ op.phase \in {"final", "now"} /\ ~op.any
           flushes == ~(IsImage /\ op.cached /\ op.phase = "now" /\ ~op.any)
       IN IF rest # {}
          THEN /\ op' = [op EXCEPT !.i = CHOOSE j \in rest : \A k \in rest : j <= k,
                                   !.welapsed = 0, !.inpump = FALSE, !.gotev = FALSE]
               /\ pc' = "wait"
               /\ UNCHANGED <<current, result, now>>
          ELSE IF bails
          THEN /\ Return("err", "no usable outputs") /\ UNCHANGED current
          ELSE IF flushes /\ ~conn_ok
          THEN /\ Return("err", "flush") /\ UNCHANGED current
          ELSE IF op.phase = "tick"
          THEN /\ pc' = "anim"
               /\ op' = [op EXCEPT !.i = 0, !.frames = IF IsImage THEN @ + 1 ELSE @]
               /\ now' = IF op.i = 0 THEN Max(now, Duration(spec))
                         ELSE IF IsImage
                         THEN NextFrameAt(op.frames + 1, Duration(spec)) ELSE now
               /\ UNCHANGED <<current, result>>
          ELSE IF op.phase = "frame0"
          THEN /\ pc' = "anim"
               /\ op' = [op EXCEPT !.i = 0, !.frames = 0]
               /\ now' = 0
               /\ UNCHANGED <<current, result>>
          ELSE ApplyOk
    /\ UNCHANGED <<budget, current_json, globals, inst, blend, cache, outputs, policy, conn_ok, surfaces, comp>>

\* the next deadline of the wait loop after e milliseconds of waiting
NextThreshold(e) ==
    IF e < DISABLE_FRAME_CB_AFTER THEN DISABLE_FRAME_CB_AFTER ELSE HARD_BAIL_AFTER

\* time the pump of one loop iteration takes.  Exactly: the poll returns as
\* soon as the socket is readable (at once or at the end of its window) and
\* after its timeout otherwise, then the loop sleeps.  Coarsely: the loop either stays
\* short of its next deadline or is seen again when it reaches it.  (The
\* 250 ms warning only writes a log line and is left out.)
PumpMs(exact) ==
    IF exact
    THEN (IF op.gotev THEN {LOOP_SLEEP_MS, POLL_TIMEOUT_MS + LOOP_SLEEP_MS}
          ELSE {POLL_TIMEOUT_MS + LOOP_SLEEP_MS})
    ELSE {0, NextThreshold(op.welapsed) - op.welapsed}

\* a wait loop without its hard bail
HardBailNever(elapsed) == FALSE

\* the hard bail of wait_for_free_buffer_idx
HardBail(elapsed) == elapsed >= HARD_BAIL_AFTER

\* a wait loop that never gives up on frame callbacks
FrameCbStuckNever(elapsed, s) == FALSE

\* frame-callback pacing looks stuck: the 200 ms test of wait_for_free_buffer_idx
FrameCbStuck(elapsed, s) ==
    elapsed >= DISABLE_FRAME_CB_AFTER /\ s.frame_callback_ok /\ s.frame_pending

\* one iteration of the loop of wait_for_free_buffer_idx for surface op.i,
\* from reading the clock to the end of the pump
WaitIter(exact) ==
    /\ pc = "wait"
    /\ \E d \in (IF op.inpump THEN PumpMs(exact) ELSE {0}) :
         LET elapsed == op.welapsed + d
             i == op.i
             s == surfaces[i]
             s1 == IF current_is_busy(s.buffers)
                   THEN [s EXCEPT !.buffers = swap_to_free(@)] ELSE s
             ready == IF s1.frame_callback_ok
                      THEN ~current_is_busy(s1.buffers) /\ ~s1.frame_pending
                      ELSE ~current_is_busy(s1.buffers)
             s2 == IF FrameCbStuck(elapsed, s1) THEN ClearPacing(s1) ELSE s1
         IN /\ now' = Min(now + d, MaxClock)
            /\ IF HardBail(elapsed)
               THEN /\ surfaces' = [surfaces EXCEPT ![i] = ClearPacing(s)]
                    /\ pc' = "paint"
                    /\ op' = [op EXCEPT !.welapsed = elapsed, !.inpump = FALSE,
                                        !.gotev = FALSE]
                    /\ UNCHANGED result
               ELSE IF ready
               THEN /\ surfaces' = [surfaces EXCEPT ![i] = s1]
                    /\ pc' = "paint"
                    /\ op' = [op EXCEPT !.welapsed = elapsed, !.inpump = FALSE,
                                        !.gotev = FALSE]
                    /\ UNCHANGED result
               ELSE /\ surfaces' = [surfaces EXCEPT ![i] = s2]
                    /\ IF ~conn_ok
                       THEN /\ pc' = "done"
                            /\ result' = [op |-> op.kind, status |-> "err",
                                  spec |-> op.spec, output |-> op.output,
                                  commits |-> op.commits,
                                  resurrected |-> op.resurrected, err |-> "flush",
                                  elapsed |-> Min(now + d, MaxClock),
                                  before |-> surfaces, selected |-> Selected,
                                  from |-> FromState,
                                  cur_before |-> op.cur_before,
                                  named |-> op.named, calls |-> op.calls,
                                  first_err |-> op.first_err,
                                  cached |-> op.cached,
                                  cache_rows |-> op.cache_rows]
                            /\ op' = IdleOp
                       ELSE /\ pc' = "wait"
                            /\ op' = [op EXCEPT !.welapsed = elapsed, !.inpump = TRUE,
                                                !.gotev = FALSE]
                            /\ UNCHANGED result
    /\ UNCHANGED <<budget, current_json, globals, inst, blend, cache, outputs, policy, conn_ok, current, comp>>

\* the frame a pass paints into the current buffer of surface i
PassFrame(s, i) ==
    LET spec == Unwrap(op.spec)
        tr == spec.transition
        to_px == xrgb8888(spec.colour)
    IN IF spec.kind = "colour"
       THEN (IF op.phase = "tick" /\ tr.kind = "Wipe"
             THEN paint_wipe_frame_to_solid_fast(s.width, s.height, DstLen(s),
                      Unwrap(op.from_frames[i]), to_px, op.tt, tr.wipe_from)
             ELSE IF op.phase = "tick"
             THEN paint_blend_frame_to_solid_fast(DstLen(s),
                      Unwrap(op.from_frames[i]), to_px, op.tt)
             ELSE paint_frame_u32(s, SolidFrame(to_px, NumPixels(s))))
       ELSE (IF op.phase \in {"tick", "frame0"} /\ tr.kind = "Wipe"
             THEN paint_wipe_frame_to_frame_fast(s.width, s.height, DstLen(s),
                      Unwrap(op.from_frames[i]), Unwrap(op.to_frames[i]), op.tt,
                      tr.wipe_from)
             ELSE IF op.phase \in {"tick", "frame0"}
             THEN paint_blend_frame_to_frame_fast(DstLen(s),
                      Unwrap(op.from_frames[i]), Unwrap(op.to_frames[i]), op.tt)
             ELSE IF op.phase = "now" /\ ~op.cached
             THEN paint_frame_u32(s, render_final_frame_u32(s.width, s.height,
                                        GoodImage, spec.colour))
             ELSE paint_frame_u32(s, Unwrap(op.to_frames[i])))

\* the frame a closing pass records as last_frame of surface i
TargetFrame(s, i) ==
    LET spec == Unwrap(op.spec)
    IN IF spec.kind = "colour" THEN SolidFrame(xrgb8888(spec.colour), NumPixels(s))
       ELSE IF op.phase = "now" /\ ~op.cached
       THEN render_final_frame_u32(s.width, s.height, GoodImage, spec.colour)
       ELSE Unwrap(op.to_frames[i])

\* after the wait returned Ok: paint the frame and commit it; a closing pass
\* also records what the surface now shows
Present ==
    /\ pc = "paint"
    /\ LET i == op.i
           s == surfaces[i]
           spec == Unwrap(op.spec)
           closing == op.phase \in {"final", "now"}
           skip == spec.kind = "colour" /\ closing /\ (s.width = 0 \/ s.height = 0)
           s1 == commit_surface(s)
           s2 == IF closing
                 THEN [s1 EXCEPT !.last_colour = spec.colour,
                                 !.has_image = (spec.kind = "image"),
                                 !.last_frame = Some(TargetFrame(s, i))]
                 ELSE s1
       IN IF skip
          THEN UNCHANGED <<surfaces, comp, op>>
          ELSE /\ surfaces' = [surfaces EXCEPT ![i] = s2]
               /\ comp' = [comp EXCEPT ![i] = CompCommit(@, s, PassFrame(s, i))]
               /\ op' = [op EXCEPT !.commits[i] = CountCommit(@, s),
                                   !.any = @ \/ closing]
    /\ pc' = "pass"
    /\ now' = Min(now + PaintMs, MaxClock)
    /\ UNCHANGED <<budget, current_json, globals, inst, blend, cache, outputs, policy, conn_ok, current, result>>

\* ------------------------------------------------------------ specification
KnownOutputs == {outputs[i].name : i \in 1..N}
Outputs == {None} \cup KnownOutputs \cup {Some(UnknownOutput)}
\* ------------------------------------------------------------ daemon
\* the errors that carry a std::io::Error in their chain
IoErrors == {"roundtrip", "flush", "apply_image roundtrip"}

\* is_broken_pipe: some error of the chain is an io::Error of kind BrokenPipe
is_broken_pipe_any(e) == TRUE
is_broken_pipe(e) == e \in IoErrors /\ globals.errno = "EPIPE"

\* apply_with_retry's match on the first Engine::apply (unset_with_retry's on
\* the first Engine::unset): the second arm is taken for a broken pipe only,
\* and only the first call is matched
RetryArm ==
    /\ pc = "done"
    /\ result.op \in {"apply", "unset"}
    /\ result.calls = 1
    /\ result.status = "err"
    /\ is_broken_pipe(result.err)

\* what the request handlers leave in current.json once the engine call has
\* returned: save_current after an apply that returned Ok, clear_current after
\* a global unset that returned Ok and after stop (the file operation itself
\* succeeding)
SavedCurrent ==
    IF result.op = "stop" THEN None
    ELSE IF result.status # "ok" THEN current_json
    ELSE IF result.op = "apply" THEN result.spec
    ELSE IF result.output = None THEN None
    ELSE current_json

\* Ok(_) => { save / clear; Ok(()) }, Err(e) => Err(e), and the ? on the
\* second call; for stop, let _ = engine.stop(); clear_current(..)
ReturnToCaller ==
    /\ pc = "done"
    /\ result.op \in {"apply", "unset", "stop"}
    /\ ~RetryArm
    /\ pc' = "ret"
    /\ current_json' = SavedCurrent
    /\ UNCHANGED <<budget, globals, inst, blend, cache, outputs, policy, conn_ok, surfaces, current, comp, op,
                   result, now>>

\* *engine = build_engine()? when Engine::new fails: the error is returned
\* and the old engine is left in place
RebuildFail ==
    /\ RetryArm
    /\ pc' = "ret"
    /\ result' = [result EXCEPT !.first_err = result.err, !.err = "connect"]
    /\ UNCHANGED <<budget, current_json, globals, inst, blend, cache, outputs, policy, conn_ok, surfaces, current, comp, op,
                   now>>

\* *engine = build_engine()? succeeding: a new connection, no surface rows,
\* no current spec
Rebuild ==
    /\ RetryArm
    /\ pc' = "retry"
    /\ conn_ok' = TRUE
    /\ surfaces' = <<>>
    /\ current' = None
    /\ comp' = [i \in 1..N |-> NewComp]
    /\ UNCHANGED <<budget, current_json, globals, inst, blend, cache, outputs, policy, op, result, now>>

\* engine.apply(spec.clone())? on the new engine
Reapply ==
    /\ pc = "retry"
    /\ result.op = "apply"
    /\ ApplyCall(Unwrap(result.spec), result.calls + 1, result.err)
    /\ UNCHANGED budget

\* engine.unset(output)? on the new engine
Reunset ==
    /\ pc = "retry"
    /\ result.op = "unset"
    /\ UnsetCall(result.output, result.calls + 1, result.err)
    /\ UNCHANGED budget

\* the daemon answers the client; after a stop request it leaves its loop
Respond ==
    /\ pc = "ret"
    /\ pc' = IF result.op = "stop" THEN "exit" ELSE "idle"
    /\ result' = NoResult
    /\ UNCHANGED <<budget, current_json, globals, inst, blend, cache, outputs, policy, conn_ok, surfaces, current, comp, op, now>>

\* errno is what an I/O call on the socket fails with once the connection is
\* gone
AllGlobals == [compositor : BOOLEAN, shm : BOOLEAN, layer_shell : BOOLEAN,
               errno : {"EPIPE"}]
GoodGlobals == {[compositor |-> TRUE, shm |-> TRUE, layer_shell |-> TRUE,
                 errno |-> "EPIPE"]}
RetryGlobals == [compositor : BOOLEAN, shm : {TRUE}, layer_shell : {TRUE},
                 errno : {"EPIPE", "ECONNRESET"}]

ColourSpecs == {ColourSpec(c, o, tr) : c \in Colours, o \in Outputs, tr \in Transitions}
ImageSpecs ==
    {ImageSpec(WallPng, Palette[1], o, tr) :
        o \in {None, Some(UnknownOutput)}, tr \in Transitions}
    \cup {ImageSpec(MissingPng, Palette[1], None, tr) :
        tr \in {x \in Transitions : x.kind = "None"}}

Event ==
    \/ \E i \in 1..MaxOutputs : Configure(i)
    \/ \E i \in 1..MaxOutputs : Closed(i)
    \/ \E i \in 1..MaxOutputs, which \in 0..1 : Release(i, which)
    \/ \E i \in 1..MaxOutputs : FrameDone(i)

Steps(exact) ==
    \/ WaitForConfigured
    \/ ApplyColour
    \/ AnimTop
    \/ PassNext
    \/ WaitIter(exact)
    \/ Present
    \/ Finish

\* one output, every kind of request, any compositor, a socket that may break
Init == InitWith({<<"any", 1, MaxRequests>>}, AllGlobals)

Next ==
    \/ \E spec \in ColourSpecs \cup ImageSpecs : Apply(spec)
    \/ \E o \in Outputs : Unset(o)
    \/ Stop
    \/ Steps(FALSE)
    \/ ApplyImage
    \/ UnsetBody
    \/ Event
    \/ ConnBreak

Spec == Init /\ [][Next]_vars

\* two outputs, colour requests and unsets, a compositor that keeps its
\* layer surfaces open
TwoSpecs ==
    {ColourSpec(c, o, tr) : c \in Colours, o \in {None} \cup KnownOutputs,
                            tr \in Transitions}

InitTwo == InitWith({<<"any", MaxOutputs, MaxRequests>>}, GoodGlobals)

NextTwo ==
    \/ \E spec \in TwoSpecs : Apply(spec)
    \/ \E o \in Outputs : Unset(o)
    \/ Steps(FALSE)
    \/ UnsetBody
    \/ \E i \in 1..MaxOutputs : Configure(i)
    \/ \E i \in 1..MaxOutputs, which \in 0..1 : Release(i, which)
    \/ \E i \in 1..MaxOutputs : FrameDone(i)

SpecTwo == InitTwo /\ [][NextTwo]_vars

\* one output that the compositor resizes and closes at will, colour requests
\* and unsets
ResizeSpecs == {ColourSpec(c, None, tr) : c \in Colours, tr \in Transitions}

InitResize == InitWith({<<"any", 1, MaxRequests>>}, GoodGlobals)

NextResize ==
    \/ \E spec \in ResizeSpecs : Apply(spec)
    \/ \E o \in Outputs : Unset(o)
    \/ Steps(FALSE)
    \/ UnsetBody
    \/ Configure(1)
    \/ \E j \in 1..Len(OutputSize) : Resize(1, j)
    \/ ConfigureZero(1)
    \/ Closed(1)
    \/ \E which \in 0..1 : Release(1, which)
    \/ FrameDone(1)

SpecResize == InitResize /\ [][NextResize]_vars

\* a compositor that configures its surfaces but withholds releases and
\* frame callbacks, against the engine on the millisecond clock
TimedSpecs ==
    {ColourSpec(c, None, [kind |-> "Fade", duration |-> FadeMs, wipe_from |-> "Left"]) :
        c \in Colours}

InitTimed ==
    InitWith({<<"silent", 1, MaxRequests>>, <<"silent", MaxOutputs, MaxRequests>>,
              <<"stuck", 1, 1>>}, GoodGlobals)

EngineTimed ==
    \/ \E spec \in TimedSpecs : Apply(spec)
    \/ Steps(TRUE)

NextTimed ==
    \/ EngineTimed
    \/ \E i \in 1..MaxOutputs : Configure(i)
    \/ \E i \in 1..MaxOutputs, which \in 0..1 : Release(i, which)

SpecTimed == InitTimed /\ [][NextTimed]_vars

\* the configure wait alone: one or MaxOutputs outputs, instant colour applies and
\* unsets, a compositor that configures or closes surfaces as it likes, a
\* socket that may break
InstantSpecs ==
    {ColourSpec(Palette[1], o, tr) :
        o \in {None} \cup KnownOutputs, tr \in {x \in Transitions : x.kind = "None"}}

InitCfg ==
    InitWith({<<"any", 1, MaxRequests>>, <<"any", MaxOutputs, MaxRequests>>},
             GoodGlobals)

NextCfg ==
    \/ \E spec \in InstantSpecs : Apply(spec)
    \/ \E o \in {None} \cup KnownOutputs : Unset(o)
    \/ WaitForConfigured
    \/ ApplyColour
    \/ UnsetBody
    \/ Finish
    \/ \E i \in 1..MaxOutputs : Configure(i)
    \/ \E i \in 1..MaxOutputs : Closed(i)
    \/ ConnBreak

SpecCfg == InitCfg /\ [][NextCfg]_vars

\* outputs whose name and description arrive when the compositor sends them:
\* per-output requests by name or by description, instant colour applies
NameArgs ==
    {Some(OutputNames[i]) : i \in 1..N} \cup {Some(OutputDescriptions[i]) : i \in 1..N}

InitNames ==
    /\ current_json = None
    /\ globals \in GoodGlobals
    /\ policy = "any"
    /\ \E n \in {1, MaxOutputs} :
          /\ outputs = [i \in 1..n |-> [name |-> None, description |-> None]]
          /\ comp = [i \in 1..n |-> NewComp]
    /\ budget = MaxRequests
    /\ conn_ok = TRUE
    /\ surfaces = <<>>
    /\ current = None
    /\ pc = "idle"
    /\ op = IdleOp
    /\ result = NoResult
    /\ now = 0
    /\ cache = UnknownCache
    /\ blend = NoBlend
    /\ inst = NoInst

NextNames ==
    \/ \E o \in NameArgs : Apply(ColourSpec(Palette[2], o,
                                [kind |-> "None", duration |-> 200, wipe_from |-> "Left"]))
    \/ \E o \in NameArgs : Unset(o)
    \/ WaitForConfigured
    \/ ApplyColour
    \/ UnsetBody
    \/ Finish
    \/ \E i \in 1..MaxOutputs : OutputName(i)
    \/ \E i \in 1..MaxOutputs : OutputDescription(i)
    \/ \E i \in 1..MaxOutputs : Configure(i)

SpecNames == InitNames /\ [][NextNames]_vars

\* the daemon's apply path: every request goes through apply_with_retry
InitRetry == InitWith({<<"any", 1, MaxRequests>>}, RetryGlobals)

NextRetry ==
    \/ \E spec \in InstantSpecs : Apply(spec)
    \/ WaitForConfigured
    \/ ApplyColour
    \/ ReturnToCaller
    \/ RebuildFail
    \/ Rebuild
    \/ Reapply
    \/ Respond
    \/ \E i \in 1..MaxOutputs : Configure(i)
    \/ ConnBreak

SpecRetry == InitRetry /\ [][NextRetry]_vars

\* the daemon's request handlers over one output: instant colour requests,
\* unsets and stop, a socket that may break and an engine that is rebuilt
DaemonSpecs ==
    {ColourSpec(c, None, tr) :
        c \in Colours, tr \in {x \in Transitions : x.kind = "None"}}

InitDaemon == InitWith({<<"any", 1, MaxRequests>>}, RetryGlobals)

NextDaemon ==
    \/ \E spec \in DaemonSpecs : Apply(spec)
    \/ \E o \in {None} \cup KnownOutputs : Unset(o)
    \/ Stop
    \/ WaitForConfigured
    \/ ApplyColour
    \/ UnsetBody
    \/ ReturnToCaller
    \/ RebuildFail
    \/ Rebuild
    \/ Reapply
    \/ Reunset
    \/ Respond
    \/ Configure(1)
    \/ ConnBreak

SpecDaemon == InitDaemon /\ [][NextDaemon]_vars

\* the MRU index on its own: six distinct keys, some of them spelled two
\* ways, recorded in any order with a frame stored after a record
MruSpecs ==
    {CacheImageSpec(p, m, Palette[1]) : p \in {<<"~", "a.png">>, FileA, FileB}, m \in Modes}
OneFrame == <<xrgb8888(Palette[2])>>

InitMru == InitDisk({<<"any", 1, MaxRecords>>}, GoodGlobals, EmptyCache)

NextMru ==
    \/ \E spec \in MruSpecs : Record(spec)
    \/ Store(0, 1, 1, OneFrame)

SpecMru == InitMru /\ [][NextMru]_vars

\* lookups while the image files are edited
FindSpecs ==
    {CacheImageSpec(p, "Fill", Palette[1]) : p \in {<<"~", "a.png">>, FileA, FileGone}}
    \cup {CacheImageSpec(FileA, "Tile", Palette[1])}

InitFind == InitDisk({<<"any", 1, MaxLookupRecords>>}, GoodGlobals, EmptyCache)

NextFind ==
    \/ \E spec \in FindSpecs : Record(spec)
    \/ \E spec \in FindSpecs : Find(spec)
    \/ \E field \in MetaFields : Touch(FileA, field)

SpecFind == InitFind /\ [][NextFind]_vars

\* the cache directory being damaged between calls
DamageSpecs == {CacheImageSpec(f, "Fill", Palette[1]) : f \in {FileA, FileB}}
FramePaths == {frame_path(id, 0, sz[1], sz[2]) : id \in 1..2, sz \in {<<1, 1>>, <<2, 1>>}}

InitDamage == InitDisk({<<"any", 1, MaxLookupRecords>>}, GoodGlobals, EmptyCache)

NextDamage ==
    \/ \E spec \in DamageSpecs : Record(spec)
    \/ \E spec \in DamageSpecs : Find(spec)
    \/ Store(0, 1, 1, OneFrame)
    \/ \E p \in FramePaths : Load(p[2], p[3], p[4], p[5])
    \/ CorruptIndex
    \/ \E p \in FramePaths : TruncateFrame(p)
    \/ \E p \in FramePaths : RemoveFrame(p)

SpecDamage == InitDamage /\ [][NextDamage]_vars

\* frames stored one file system call at a time, the process stopping
\* anywhere in between
AtomicFrames == {<<xrgb8888(Palette[2])>>, <<xrgb8888(Palette[3])>>}

InitAtomic == InitDisk({<<"any", 1, MaxRequests>>}, GoodGlobals, EmptyCache)

NextAtomic ==
    \/ Record(CacheImageSpec(FileA, "Fill", Palette[1]))
    \/ \E frame \in AtomicFrames : AwBegin(0, 1, 1, frame)
    \/ AwCreate
    \/ \E n \in 1..4 : AwWrite(n)
    \/ AwWriteFail
    \/ AwRename
    \/ Crash

SpecAtomic == InitAtomic /\ [][NextAtomic]_vars

\* image applies against a cache directory whose content is followed: the
\* image recorded or not, frames stored for either surface (the rendered
\* image or other pixels of the same size) and removed again
\* WallPng decodes; FileA is a file that is there and does not decode
WallSpecs ==
    {ImageSpec(path, Palette[1], o,
               [kind |-> "None", duration |-> 200, wipe_from |-> "Left"]) :
        path \in {WallPng, FileA}, o \in {None} \cup KnownOutputs}
StoredFrames(w, h) ==
    {render_final_frame_u32(w, h, GoodImage, Palette[1]),
     SolidFrame(xrgb8888(Palette[2]), w * h)}

InitImgCache == InitDisk({<<"any", MaxOutputs, MaxRequests>>}, GoodGlobals, EmptyCache)

NextImgCache ==
    \/ \E spec \in WallSpecs : Apply(spec)
    \/ WaitForConfigured
    \/ ApplyImage
    \/ PassNext
    \/ WaitIter(FALSE)
    \/ Present
    \/ Finish
    \/ \E i \in 1..MaxOutputs : Configure(i)
    \/ \E spec \in WallSpecs : Record(spec)
    \/ \E i \in 1..MaxOutputs :
          \E frame \in StoredFrames(OutputSize[i][1], OutputSize[i][2]) :
             Store(i - 1, OutputSize[i][1], OutputSize[i][2], frame)
    \/ \E i \in 1..MaxOutputs :
          RemoveFrame(frame_path(1, i - 1, OutputSize[i][1], OutputSize[i][2]))

SpecImgCache == InitImgCache /\ [][NextImgCache]_vars

\* the blend kernel on its own: two frames of two pixels each, every channel
\* drawn from ChanVals, one pixel of each frame with bits of the unused high
\* byte set, and every t256 of 0..256
ChanVals == {0, 1, 129, 255}
BlendPixels == {r * 65536 + g * 256 + b : r \in ChanVals, g \in ChanVals, b \in ChanVals}
HighByte == 127 * 16777216

PaintBlend ==
    /\ blend.dst = <<>> /\ blend.from # <<>>
    /\ blend' = [blend EXCEPT !.dst =
           paint_blend_frame_to_frame_fast(Len(blend.from), blend.from, blend.to,
                                           blend.t256)]
    /\ UNCHANGED <<current_json, globals, inst, outputs, policy, conn_ok, surfaces, current, comp, pc, op,
                   result, now, budget, cache>>

InitBlend ==
    /\ current_json = None
    /\ globals \in GoodGlobals
    /\ outputs = <<>> /\ surfaces = <<>> /\ comp = <<>>
    /\ policy = "any" /\ conn_ok = TRUE
    /\ current = None
    /\ pc = "idle" /\ op = IdleOp /\ result = NoResult
    /\ now = 0 /\ budget = 0
    /\ cache = UnknownCache
    /\ inst = NoInst
    /\ \E a \in BlendPixels, b \in BlendPixels, t \in 0..256 :
          blend = [from |-> <<a, a + HighByte>>, to |-> <<b + HighByte, b>>,
                   t256 |-> t, dst |-> <<>>]

NextBlend == PaintBlend

SpecBlend == InitBlend /\ [][NextBlend]_vars

\* ------------------------------------------------------------ daemon start
\* gessod processes sharing one runtime directory.  inst.lock is the process
\* whose open file holds the flock on gesso.lock (0: nobody), inst.sock the
\* process that bound the ctl.sock file now in the directory (0: no file),
\* inst.pc[p] where process p is in run_daemon, inst.last[p] how its last
\* run ended.
MaxDaemons == 3
MaxStarts == 5
Procs == 1..MaxDaemons

\* libc::flock(fd, LOCK_EX | LOCK_NB) by process p
flock(p) == IF inst.lock \in {0, p} THEN "ok" ELSE "EWOULDBLOCK"

\* try_acquire_single_instance_lock taking the file whatever flock returned
try_acquire_single_instance_lock_unchecked(p, rc) == Ok(Some(p))
try_acquire_single_instance_lock(p, rc) ==
    IF rc = "ok" THEN Ok(Some(p))
    ELSE IF rc = "EWOULDBLOCK" THEN Ok(None)
    ELSE Err("flock")

\* the process is gone: its files are closed, which drops its flock
ExitAs(p, how) ==
    [inst EXCEPT !.pc[p] = "off", !.last[p] = how,
                 !.lock = IF inst.lock = p THEN 0 ELSE inst.lock]

StartDaemon(p) ==
    /\ p \in DOMAIN inst.pc /\ inst.pc[p] = "off"
    /\ inst.starts < MaxStarts
    /\ inst' = [inst EXCEPT !.pc[p] = "lock", !.last[p] = "", !.starts = @ + 1]
    /\ UNCHANGED <<current_json, globals, outputs, policy, conn_ok, surfaces, current, comp, pc, op,
                   result, now, budget, cache, blend>>

\* open gesso.lock and flock it; rc is what flock returned, ENOLCK included
AcquireLock(p) ==
    /\ p \in DOMAIN inst.pc /\ inst.pc[p] = "lock"
    /\ \E rc \in {flock(p), "ENOLCK"} :
          LET r == try_acquire_single_instance_lock(p, rc)
              held == [inst EXCEPT !.lock = IF rc = "ok" THEN p ELSE inst.lock]
          IN inst' = IF ~r.ok THEN ExitAs(p, "flock")
                     ELSE IF r.val = None
                     THEN ExitAs(p, "another instance is already running")
                     ELSE [held EXCEPT !.pc[p] = "prepare"]
    /\ UNCHANGED <<current_json, globals, outputs, policy, conn_ok, surfaces, current, comp, pc, op,
                   result, now, budget, cache, blend>>

\* the log file, eventline and ensure_wayland_alive: each may end the run
Prepare(p) ==
    /\ p \in DOMAIN inst.pc /\ inst.pc[p] = "prepare"
    /\ \E fine \in BOOLEAN :
          inst' = IF fine THEN [inst EXCEPT !.pc[p] = "sock"]
                  ELSE ExitAs(p, "not starting")
    /\ UNCHANGED <<current_json, globals, outputs, policy, conn_ok, surfaces, current, comp, pc, op,
                   result, now, budget, cache, blend>>

\* if sock_path.exists() { let _ = remove_file } ; bind ; set_nonblocking ;
\* build_engine.  bind fails on a file that is still there; the later calls
\* may fail and leave the bound file behind
BindSocket(p) ==
    /\ p \in DOMAIN inst.pc /\ inst.pc[p] = "sock"
    /\ \E removed \in BOOLEAN, built \in BOOLEAN :
          LET file == IF inst.sock # 0 /\ removed THEN 0 ELSE inst.sock
          IN inst' = IF file # 0
                     THEN [ExitAs(p, "bind ctl.sock") EXCEPT !.sock = file]
                     ELSE IF ~built
                     THEN [ExitAs(p, "build_engine") EXCEPT !.sock = p]
                     ELSE [inst EXCEPT !.pc[p] = "serve", !.sock = p]
    /\ UNCHANGED <<current_json, globals, outputs, policy, conn_ok, surfaces, current, comp, pc, op,
                   result, now, budget, cache, blend>>

\* the accept loop ends (shutdown request or session death): remove_file
Shutdown(p) ==
    /\ p \in DOMAIN inst.pc /\ inst.pc[p] = "serve"
    /\ inst' = [ExitAs(p, "daemon exiting") EXCEPT !.sock = 0]
    /\ UNCHANGED <<current_json, globals, outputs, policy, conn_ok, surfaces, current, comp, pc, op,
                   result, now, budget, cache, blend>>

\* the process is killed wherever it is
KillDaemon(p) ==
    /\ p \in DOMAIN inst.pc /\ inst.pc[p] # "off"
    /\ inst' = ExitAs(p, "killed")
    /\ UNCHANGED <<current_json, globals, outputs, policy, conn_ok, surfaces, current, comp, pc, op,
                   result, now, budget, cache, blend>>

InitInst ==
    /\ current_json = None
    /\ globals \in GoodGlobals
    /\ outputs = <<>> /\ surfaces = <<>> /\ comp = <<>>
    /\ policy = "any" /\ conn_ok = TRUE
    /\ current = None
    /\ pc = "idle" /\ op = IdleOp /\ result = NoResult
    /\ now = 0 /\ budget = 0
    /\ cache = UnknownCache
    /\ blend = NoBlend
    /\ inst = [pc |-> [p \in Procs |-> "off"], lock |-> 0, sock |-> 0,
               last |-> [p \in Procs |-> ""], starts |-> 0]

NextInst ==
    \E p \in Procs :
       \/ StartDaemon(p)
       \/ AcquireLock(p)
       \/ Prepare(p)
       \/ BindSocket(p)
       \/ Shutdown(p)
       \/ KillDaemon(p)

SpecInst == InitInst /\ [][NextInst]_vars

\* one blend from a pixel to a pixel run through every position 0..256, by
\* the frame-to-frame and by the frame-to-solid kernel: red and blue go from
\* x to y, green from y to x, with x and y multiples of MonoStep or 255
MonoStep == 9
MonoVals == {v \in 0..255 : v % MonoStep = 0} \cup {255}

PaintRun ==
    /\ blend.frames = <<>> /\ blend.from # <<>>
    /\ blend' = [blend EXCEPT
           !.frames = [t \in 1..257 |->
                         paint_blend_frame_to_frame_fast(1, blend.from, blend.to, t - 1)[1]],
           !.solids = [t \in 1..257 |->
                         paint_blend_frame_to_solid_fast(1, blend.from, blend.to[1], t - 1)[1]]]
    /\ UNCHANGED <<current_json, globals, inst, outputs, policy, conn_ok, surfaces, current, comp, pc, op,
                   result, now, budget, cache>>

InitMono ==
    /\ current_json = None
    /\ globals \in GoodGlobals
    /\ outputs = <<>> /\ surfaces = <<>> /\ comp = <<>>
    /\ policy = "any" /\ conn_ok = TRUE
    /\ current = None
    /\ pc = "idle" /\ op = IdleOp /\ result = NoResult
    /\ now = 0 /\ budget = 0
    /\ cache = UnknownCache
    /\ inst = NoInst
    /\ \E x \in MonoVals, y \in MonoVals :
          blend = [from |-> <<x * 65536 + y * 256 + x>>,
                   to |-> <<y * 65536 + x * 256 + y>>,
                   frames |-> <<>>, solids |-> <<>>]

NextMono == PaintRun

SpecMono == InitMono /\ [][NextMono]_vars

\* the two wipe kernels on their own, each run at two positions t256 <= t2 of
\* one wipe: a surface of w x WipeH pixels, a from frame whose pixels are
\* 1, 2, ... and a to frame (or a solid colour) of other values
MaxWipeW == 4
WipeH == 2
WipePx == 900
WipeFromFrame(w) == [k \in 1..(w * WipeH) |-> k]
WipeToFrame(w) == [k \in 1..(w * WipeH) |-> 100 + k]

RunWipe(b, tt) ==
    IF b.kernel = "solid"
    THEN paint_wipe_frame_to_solid_fast(b.w, b.h, b.w * b.h, b.from, WipePx, tt,
                                        b.wipe_from)
    ELSE paint_wipe_frame_to_frame_dir(b.w, b.h, b.w * b.h, b.from, b.to, tt,
                                       b.wipe_from)

PaintWipe ==
    /\ blend.dst = <<>> /\ blend.from # <<>>
    /\ blend' = [blend EXCEPT !.dst = RunWipe(blend, blend.t256),
                               !.dst2 = RunWipe(blend, blend.t2)]
    /\ UNCHANGED <<current_json, globals, inst, outputs, policy, conn_ok, surfaces, current, comp, pc, op,
                   result, now, budget, cache>>

InitWipe ==
    /\ current_json = None
    /\ globals \in GoodGlobals
    /\ outputs = <<>> /\ surfaces = <<>> /\ comp = <<>>
    /\ policy = "any" /\ conn_ok = TRUE
    /\ current = None
    /\ pc = "idle" /\ op = IdleOp /\ result = NoResult
    /\ now = 0 /\ budget = 0
    /\ cache = UnknownCache
    /\ inst = NoInst
    /\ \E w \in 1..MaxWipeW, t1 \in 0..256, t2 \in 0..256,
          dir \in {"Left", "Right"}, kernel \in {"solid", "frame"} :
          /\ t1 <= t2
          /\ blend = [kernel |-> kernel, w |-> w, h |-> WipeH,
                      from |-> WipeFromFrame(w),
                      to |-> IF kernel = "solid" THEN SolidFrame(WipePx, w * WipeH)
                             ELSE WipeToFrame(w),
                      t256 |-> t1, t2 |-> t2, wipe_from |-> dir,
                      dst |-> <<>>, dst2 |-> <<>>]

NextWipe == PaintWipe

SpecWipe == InitWipe /\ [][NextWipe]_vars

\* ensure_buffers_for_surface_indexed alone, on one surface row in any state
\* the engine can leave it in: allocated for its present size or for another
\* one, never allocated, or with its second slot missing after a failed
\* allocation; slots busy or free, pacing fields set or clear
MaxDim == 2

EnsureRows ==
    {[NewSurface(Some(OutputNames[1])) EXCEPT
        !.width = w, !.height = h, !.configured = TRUE,
        !.stride = IF old[1] = 0 THEN 0 ELSE old[1] * 4,
        !.size_bytes = old[1] * 4 * old[2],
        !.buffers = [a |-> [ready |-> rdy[1], busy |-> rdy[1] /\ busy[1]],
                     b |-> [ready |-> rdy[2], busy |-> rdy[2] /\ busy[2]],
                     current |-> cur],
        !.frame_callback_ok = ok, !.frame_pending = pend, !.frame_cb = pend] :
       w \in 1..MaxDim, h \in 1..MaxDim,
       old \in ((1..MaxDim) \X (1..MaxDim)) \cup {<<0, 0>>},
       rdy \in {<<TRUE, TRUE>>, <<TRUE, FALSE>>, <<FALSE, FALSE>>},
       busy \in BOOLEAN \X BOOLEAN, cur \in 0..1,
       ok \in BOOLEAN, pend \in BOOLEAN}

\* the row after a create_one_buffer that failed: at = 0 for the first slot,
\* 1 for the second
ensure_buffers_failed(s, at) ==
    [ClearPacing(s) EXCEPT
       !.buffers = [a |-> [ready |-> at = 1, busy |-> FALSE],
                    b |-> [ready |-> FALSE, busy |-> FALSE], current |-> 0]]

\* one call of ensure_buffers_for_surface_indexed; tempfile, set_len or mmap
\* may fail in either create_one_buffer
EnsureBuffers ==
    /\ pc = "idle" /\ Len(surfaces) = 1 /\ result.op = "none"
    /\ LET s == surfaces[1]
           t == ensure_buffers_for_surface_indexed(s)
       IN \/ /\ surfaces' = <<t>>
             /\ result' = [NoResult EXCEPT !.op = "ensure", !.status = "ok",
                                           !.before = surfaces]
          \/ /\ t # s
             /\ \E at \in 0..1 : surfaces' = <<ensure_buffers_failed(s, at)>>
             /\ result' = [NoResult EXCEPT !.op = "ensure", !.status = "err",
                                           !.err = "tempfile for shm",
                                           !.before = surfaces]
    /\ pc' = "done"
    /\ UNCHANGED <<current_json, globals, inst, blend, outputs, policy, conn_ok, current, comp, op,
                   now, budget, cache>>

InitEnsure ==
    /\ current_json = None
    /\ globals \in GoodGlobals
    /\ outputs = <<>> /\ comp = <<>>
    /\ policy = "any" /\ conn_ok = TRUE
    /\ current = None
    /\ pc = "idle" /\ op = IdleOp /\ result = NoResult
    /\ now = 0 /\ budget = 0
    /\ cache = UnknownCache
    /\ inst = NoInst /\ blend = NoBlend
    /\ \E s \in EnsureRows : surfaces = <<s>>

NextEnsure == EnsureBuffers

SpecEnsure == InitEnsure /\ [][NextEnsure]_vars

\* one output on the millisecond clock with a compositor that releases
\* buffers and answers frame callbacks when it likes, or not at all
PacedSpecs ==
    {ColourSpec(Palette[2], None,
                [kind |-> "Fade", duration |-> PacedMs, wipe_from |-> "Left"])}

InitPaced == InitWith({<<"any", 1, 1>>}, GoodGlobals)

NextPaced ==
    \/ \E spec \in PacedSpecs : Apply(spec)
    \/ Steps(TRUE)
    \/ Configure(1)
    \/ \E which \in 0..1 : Release(1, which)
    \/ FrameDone(1)

SpecPaced == InitPaced /\ [][NextPaced]_vars

\* the engine's thread always takes its next step; the compositor owes nothing
FairTimed == SpecTimed /\ WF_vars(Steps(TRUE))

\* ------------------------------------------------------------ claims

\* C1: against a compositor that never releases a buffer and never answers a
\* frame callback, the buffer wait never goes on once it has read 1500 ms or
\* more on its clock, and an apply that began painting returns Ok.
C1_HostileTerminates ==
    /\ [](pc = "wait" => op.welapsed < HARD_BAIL_AFTER)
    /\ (pc = "anim") ~> (pc = "done" /\ result.status = "ok")

\* a wait under the silent compositor that ended by the hard bail
C1_Witness ==
    /\ policy = "silent"
    /\ pc = "paint"
    /\ op.welapsed >= HARD_BAIL_AFTER
    /\ ~surfaces[op.i].frame_pending

\* C2: under a compositor that never sends frame-done and never releases the
\* first-attached buffer, a Colour apply with a 50 ms Fade returns within
\* 2 seconds, with frame_callback_ok false and last_frame the solid target
\* frame on every selected surface.
C2_StuckFadeCompletes ==
    (/\ pc = "done" /\ result.op = "apply"
     /\ policy \in {"stuck", "silent"}
     /\ Unwrap(result.spec).kind = "colour"
     /\ Unwrap(result.spec).transition.kind = "Fade"
     /\ Unwrap(result.spec).transition.duration = FadeMs)
    => /\ result.status = "ok"
       /\ result.elapsed <= 2000
       /\ \A i \in result.selected :
             /\ ~surfaces[i].frame_callback_ok
             /\ surfaces[i].last_frame =
                    Some(SolidFrame(xrgb8888(Unwrap(result.spec).colour),
                                    NumPixels(surfaces[i])))

\* the frame an apply of spec is to leave on surface row s
TargetOf(spec, s) ==
    IF spec.kind = "colour" THEN SolidFrame(xrgb8888(spec.colour), NumPixels(s))
    ELSE render_final_frame_u32(s.width, s.height, GoodImage, spec.colour)

\* an apply has just returned Ok
ApplyReturnedOk == pc = "done" /\ result.op = "apply" /\ result.status = "ok"

\* C3: after a successful apply with a Fade or Wipe transition, every selected
\* usable surface has last_frame = Some(target frame), element for element,
\* whatever the surface held before.
C3_FinalFrameExact ==
    (ApplyReturnedOk /\ Unwrap(result.spec).transition.kind \in {"Fade", "Wipe"})
    => \A i \in result.selected :
          surface_usable(surfaces[i])
          => surfaces[i].last_frame = Some(TargetOf(Unwrap(result.spec), surfaces[i]))

\* the pixels surface i held when the returned apply began already equal its
\* target colour
AlreadyShows(i) ==
    \A k \in 1..Len(Unwrap(result.from[i])) :
        Unwrap(result.from[i])[k] = xrgb8888(Unwrap(result.spec).colour)

\* surface i took no commit and differs from the row the apply found only in
\* last_colour and has_image (and in buffers allocated on first use)
StateOnly(i) ==
    /\ result.commits[i] = 0
    /\ Len(result.before) = Len(surfaces)
    /\ surfaces[i] =
          [ensure_buffers_for_surface_indexed(result.before[i]) EXCEPT
              !.last_colour = Unwrap(result.spec).colour, !.has_image = FALSE]

NamedUnknownOutput ==
    /\ IsSome(result.output)
    /\ \A i \in Idx : surfaces[i].output_name # result.output

\* C5: an apply whose spec names an output that matches no surface's output
\* name returns an error, for Colour and Image specs of every transition
\* kind, and leaves current as it was.
C5_UnknownOutputFails ==
    (pc = "done" /\ result.op = "apply" /\ surfaces # <<>> /\ NamedUnknownOutput)
    => /\ result.status = "err"
       /\ current = result.cur_before

\* C6: Engine::apply leaves current = Some(spec) when it returns Ok and leaves
\* current as it was before the call when it returns an error.
C6_CurrentIffOk ==
    (pc = "done" /\ result.op = "apply")
    => /\ result.status = "ok" => current = result.spec
       /\ result.status = "err" => current = result.cur_before

\* an apply that failed after committing a frame, with another spec current
C6_Witness ==
    /\ pc = "done" /\ result.op = "apply" /\ result.status = "err"
    /\ IsSome(result.cur_before) /\ result.cur_before # result.spec
    /\ current = result.cur_before
    /\ \E i \in 1..Len(result.commits) : result.commits[i] > 0

\* C7: a Colour apply with transition kind None makes exactly one commit on
\* every selected usable surface and leaves there last_frame = the solid
\* target frame of width * height pixels, last_colour = target and
\* has_image = false.
C7_InstantPaintsOnce ==
    (/\ ApplyReturnedOk /\ Unwrap(result.spec).kind = "colour"
     /\ Unwrap(result.spec).transition.kind = "None")
    => \A i \in result.selected :
          /\ result.commits[i] = 1
          /\ surfaces[i].last_frame =
                Some(SolidFrame(xrgb8888(Unwrap(result.spec).colour),
                                surfaces[i].width * surfaces[i].height))
          /\ surfaces[i].last_colour = Unwrap(result.spec).colour
          /\ ~surfaces[i].has_image

\* an unset has just returned Ok
UnsetReturnedOk == pc = "done" /\ result.op = "unset" /\ result.status = "ok"

\* row s has no pacing state left
PacingCleared(s) == ~s.frame_callback_ok /\ ~s.frame_pending /\ ~s.frame_cb

C9_UnsetAllFrame ==
    (UnsetReturnedOk /\ ~IsSome(result.output))
    => /\ Len(surfaces) = Len(result.before)
       /\ current = None
       /\ \A i \in Idx :
             /\ surfaces[i].alive = result.before[i].alive
             /\ surfaces[i].configured = result.before[i].configured
             /\ surfaces[i].width = result.before[i].width
             /\ surfaces[i].height = result.before[i].height
             /\ surfaces[i].buffers = result.before[i].buffers
             /\ ~surfaces[i].has_image
             /\ surfaces[i].last_frame = None
             /\ PacingCleared(surfaces[i])

\* a global unset of two painted surfaces with a frame callback outstanding
C9_Witness ==
    /\ UnsetReturnedOk /\ ~IsSome(result.output)
    /\ IsSome(result.cur_before)
    /\ Len(surfaces) = 2
    /\ \A i \in Idx :
          /\ IsSome(result.before[i].last_frame)
          /\ result.before[i].frame_pending
          /\ current_is_busy(swap(surfaces[i].buffers))

\* C10: the apply after a per-output unset of X that selects X re-creates X's
\* layer surface (alive again, found configured only through a new configure
\* event) and paints it once it is configured; an apply that does not select
\* X leaves it as dead or alive as it was.
C10_ResurrectPaints ==
    ApplyReturnedOk
    => /\ \A i \in result.resurrected :
             /\ surface_selected(surfaces[i], result.output)
             /\ surfaces[i].alive
             /\ i \in result.selected
                => /\ result.commits[i] >= 1
                   /\ surfaces[i].last_frame =
                         Some(TargetOf(Unwrap(result.spec), surfaces[i]))
       /\ \A i \in Idx :
             ~surface_selected(surfaces[i], result.output)
             => /\ i \notin result.resurrected
                /\ surfaces[i].alive = result.before[i].alive

\* the alive rows, and those of them configured with a non-zero size
AliveRows == {i \in Idx : surfaces[i].alive}
SizedRows ==
    {i \in AliveRows : surfaces[i].configured /\ surfaces[i].width > 0
                       /\ surfaces[i].height > 0}

\* wait_for_configured has just returned an error
WaitFailed ==
    /\ pc = "done" /\ result.status = "err"
    /\ result.err \in {"roundtrip", "No alive surfaces configured after waiting"}

\* C11 as stated: wait_for_configured returns an error only when alive
\* surfaces exist and none of them is configured with a non-zero size.
C11_ErrorOnlyUnconfigured ==
    WaitFailed => (AliveRows # {} /\ SizedRows = {})

\* C11 amended: each round of wait_for_configured begins with a roundtrip
\* whose failure is returned at once; otherwise the round returns Ok when no
\* surface is alive or every alive surface is configured with a non-zero
\* size, goes on to the next round if fewer than ten were made, and after
\* the tenth returns Ok if some alive surface is so configured and the
\* error otherwise.
C11_ConfigureWait ==
    [][(pc = "cfg" /\ (pc' # "cfg" \/ op'.attempt # op.attempt))
       => LET returnsOk == pc' \in {"body", "img_rt"} /\ surfaces' = surfaces
              fails(e) == /\ pc' = "done" /\ result'.status = "err"
                          /\ result'.err = e /\ surfaces' = surfaces
          IN /\ op.attempt < CONFIGURE_ATTEMPTS
             /\ IF ~conn_ok THEN fails("roundtrip")
                ELSE IF AliveRows = {} \/ SizedRows = AliveRows THEN returnsOk
                ELSE IF op.attempt + 1 < CONFIGURE_ATTEMPTS
                THEN pc' = "cfg" /\ op'.attempt = op.attempt + 1
                ELSE IF SizedRows # {} THEN returnsOk
                ELSE fails("No alive surfaces configured after waiting")]_vars

\* the wait gave up after its tenth round with one of two alive surfaces sized
C11_Witness ==
    /\ pc = "body"
    /\ Cardinality(AliveRows) = 2 /\ Cardinality(SizedRows) = 1

\* C12: an apply or unset that names an output whose wl_output.name had been
\* dispatched before the call selects that output's surface, whether the
\* name arrived before or after the surface row was created: the unset does
\* not reject the name and takes the surface down, the apply paints it.
C12_NameSelects ==
    (pc = "done" /\ result.output \in result.named)
    => \A i \in Idx :
          outputs[i].name = result.output
          => /\ result.err # "unknown output"
             /\ (result.op = "unset" /\ result.status = "ok") => ~surfaces[i].alive
             /\ (result.op = "apply" /\ result.status = "ok"
                 /\ surface_usable(result.before[i])) => result.commits[i] = 1

\* the first Engine::apply of a request failed with an io::Error of kind
\* BrokenPipe in its chain
FirstBrokenPipe(e) ==
    e \in {"roundtrip", "flush", "apply_image roundtrip"} /\ globals.errno = "EPIPE"

\* C13: apply_with_retry calls Engine::apply at most twice for one request.
\* When the first call returns, a second call follows only if it failed with
\* a broken pipe and a new engine was built; if building fails that error is
\* returned with the old engine in place; every other result of the first
\* call, and every result of the second call, is returned as it is with the
\* engine as the call left it.
C13_RetryOnce ==
    /\ [](op.calls <= 2 /\ result.calls <= 2)
    /\ [](op.calls = 2 => FirstBrokenPipe(op.first_err))
    /\ [][(pc = "done" /\ pc' # "done")
          => IF result.calls = 1 /\ result.status = "err" /\ FirstBrokenPipe(result.err)
             THEN \/ /\ pc' = "retry" /\ result' = result
                     /\ surfaces' = <<>> /\ current' = None /\ conn_ok'
                  \/ /\ pc' = "ret" /\ result'.status = "err" /\ result'.err = "connect"
                     /\ UNCHANGED <<surfaces, current, conn_ok>>
             ELSE /\ pc' = "ret" /\ result' = result
                  /\ UNCHANGED <<surfaces, current, conn_ok>>]_vars
    /\ [][(pc = "retry" /\ pc' # "retry")
          => (pc' \in {"cfg", "done"} /\ (op'.calls = 2 \/ result'.calls = 2))]_vars

\* the second call failed too and its error went back to the client
C13_Witness ==
    /\ pc = "ret"
    /\ result.calls = 2
    /\ result.status = "err"
    /\ FirstBrokenPipe(result.first_err)

\* ids of the index, head first
EntryIds == [i \in 1..Len(cache.index.entries) |-> cache.index.entries[i].id]
\* every record so far made a new entry: the keys recorded were distinct
AllDistinct == cache.fresh /\ cache.index.state # "corrupt"

KeyOf(spec) ==
    LET file == IF Head(spec.path) = "~" THEN <<"home", "u">> \o Tail(spec.path)
                ELSE spec.path
        md == Unwrap(cache.meta[file])
    IN [path |-> file, mode |-> spec.mode, colour |-> spec.colour, size |-> md.size,
        mtime_secs |-> md.mtime_secs, mtime_nanos |-> md.mtime_nanos]

\* C15: a record of a key the index already holds returns that entry's id and
\* leaves the index as it was except that the entry is now first; no two
\* entries of the index have equal keys.
C15_RefreshMovesToHead ==
    /\ [](\A i, j \in 1..Len(cache.index.entries) :
            cache.index.entries[i].key = cache.index.entries[j].key => i = j)
    /\ [][(cache'.ret.op = "record" /\ cache'.ret.val.ok /\ budget' # budget
           /\ \E i \in 1..Len(cache.index.entries) :
                 cache.index.entries[i].key = KeyOf(Unwrap(cache'.ret.spec)))
          => LET old == cache.index.entries
                 k == KeyOf(Unwrap(cache'.ret.spec))
                 e == CHOOSE x \in {old[i] : i \in 1..Len(old)} : x.key = k
                 others == SelectSeq(old, LAMBDA x : x.key # k)
             IN /\ cache'.ret.val.val = e.id
                /\ cache'.index.entries = <<e>> \o others
                /\ Len(cache'.index.entries) = Len(old)]_vars

\* a refreshed entry that was created before the entry behind it
C15_Witness ==
    /\ cache.ret.op = "record"
    /\ ~cache.fresh
    /\ Len(EntryIds) >= 3
    /\ EntryIds[1] < EntryIds[2]
    /\ cache.ret.val = Ok(EntryIds[1])

\* a step of find_cached_entry_id for a spec whose file exists
FindStep ==
    /\ cache'.ret.op = "find"
    /\ cache' # cache
    /\ budget' = budget
    /\ cache'.meta = cache.meta
    /\ cache'.ret.key.ok

\* C16: find returns Some(id) exactly when the index holds an entry whose key
\* equals the key of the spec computed from the file as it is now, id is
\* that entry's id and the id record last returned for the key; when no
\* entry has the file's present size and mtime it returns None; the index is
\* left as it was.
C16_FindByKey ==
    [][FindStep
       => LET k == KeyOf(Unwrap(cache'.ret.spec))
              hits == {i \in 1..Len(cache.index.entries) :
                          cache.index.entries[i].key = k}
          IN /\ cache'.index = cache.index
             /\ hits = {} => cache'.ret.val = Ok(None)
             /\ hits # {}
                => \E i \in hits :
                      /\ cache'.ret.val = Ok(Some(cache.index.entries[i].id))
                      /\ k \in DOMAIN cache.issued
                      /\ cache.issued[k] = cache.index.entries[i].id]_vars

\* a lookup that missed although the index holds an entry recorded for the
\* same path, mode and background before the file was edited
C16_Witness ==
    /\ cache.ret.op = "find"
    /\ cache.ret.val = Ok(None)
    /\ \E i \in 1..Len(cache.index.entries) :
          LET e == cache.index.entries[i].key
              k == cache.ret.key.val
          IN /\ e.path = k.path /\ e.mode = k.mode /\ e.colour = k.colour
             /\ e # k

\* C17: damaged or missing cache data is a miss and never an error: a load
\* returns None, not an error, for a frame file that is missing or whose
\* length is not w*h*4, and whatever cache_index.json holds, a record or a
\* store for an image file that exists succeeds.
C17_DamageTolerated ==
    /\ cache.ret.op = "load"
       => /\ cache.ret.val.ok
          /\ LET p == cache.ret.key.val
             IN (p \notin DOMAIN cache.fs \/ Len(cache.fs[p]) # p[4] * p[5] * 4)
                => cache.ret.val.val = None
    /\ (cache.ret.op \in {"record", "store"} /\ cache.ret.key.ok) => cache.ret.val.ok

\* what the path atomic_write was called for holds now
TargetNow ==
    IF cache.aw.target \in DOMAIN cache.fs THEN Some(cache.fs[cache.aw.target]) ELSE None

\* C18: wherever atomic_write is, or was stopped, the target holds all of
\* what it held when the call began (or still does not exist) or all of the
\* new bytes, and every frame file is a whole frame.
C18_AtomicWrite ==
    /\ cache.aw.step # "idle" => (TargetNow = cache.aw.prev \/ TargetNow = Some(cache.aw.bytes))
    /\ \A p \in DOMAIN cache.fs :
          p[1] = "xrgb" => cache.fs[p] \in {FrameBytes(f) : f \in AtomicFrames}

\* stopped after part of the new frame reached the tmp file, the target
\* still holding the other frame
C18_Witness ==
    /\ cache.aw.step = "stopped"
    /\ IsSome(cache.aw.prev)
    /\ Unwrap(cache.aw.prev) # cache.aw.bytes
    /\ TargetNow = cache.aw.prev
    /\ \E t \in DOMAIN cache.fs :
          /\ t[1] = "tmp"
          /\ t[2] = cache.aw.target[2] /\ t[3] = cache.aw.target[3]
          /\ Len(cache.fs[t]) \in 1..3

\* the rows apply_image asks the cache about, the entry the index holds for
\* the spec's key and that entry's frame file for a row, read off the
\* directory as it lies
Rows19(t, output) ==
    {i \in 1..Len(t) :
        /\ t[i].configured /\ t[i].width # 0 /\ t[i].height # 0
        /\ (output = None \/ t[i].output_name = output)}
KeyInIndex19(spec) ==
    /\ cache.index.state = "ok"
    /\ \E k \in 1..Len(cache.index.entries) : cache.index.entries[k].key = KeyOf(spec)
EntryId19(spec) ==
    LET k == CHOOSE k \in 1..Len(cache.index.entries) :
                 cache.index.entries[k].key = KeyOf(spec)
    IN cache.index.entries[k].id
FrameFile19(spec, i, s) == <<"xrgb", EntryId19(spec), i - 1, s.width, s.height>>
FrameLoads19(spec, i, s) ==
    /\ FrameFile19(spec, i, s) \in DOMAIN cache.fs
    /\ Len(cache.fs[FrameFile19(spec, i, s)]) = 4 * s.width * s.height
CachedPixels19(spec, i, s) ==
    LET b == cache.fs[FrameFile19(spec, i, s)]
    IN [k \in 1..(s.width * s.height) |->
          b[4 * k - 3] + 256 * b[4 * k - 2] + 65536 * b[4 * k - 1] + 16777216 * b[4 * k]]
AllLoad19(spec, t) ==
    /\ KeyInIndex19(spec)
    /\ \A i \in Rows19(t, spec.output) : FrameLoads19(spec, i, t[i])
Expect19(spec, t) == AllLoad19(spec, t) /\ Rows19(t, spec.output) # {}

\* C19 (as amended): an Image apply uses cached frames exactly when the
\* spec's key is in the cache index, at least one configured surface is
\* selected, and a frame of the exact (surface index, width, height) loads
\* for every selected configured surface. Then the image is not decoded (a
\* file that does not decode does not fail the apply) and each selected
\* surface's final last_frame is the cached pixels; otherwise the image is
\* decoded (a file that does not decode fails the apply) and each selected
\* surface's final last_frame is the image rendered anew.
C19_CachedFrames ==
    /\ [][(pc = "img_rt" /\ pc' # "img_rt")
            => LET spec == Unwrap(op.spec)
               IN /\ Expect19(spec, surfaces) => (pc' = "pass" /\ op'.cached)
                  /\ ~Expect19(spec, surfaces)
                       => /\ pc' = "pass" => ~op'.cached
                          /\ spec.path # WallPng
                               => (pc' = "done" /\ result'.err = "decode image")]_vars
    /\ [](( /\ pc = "done" /\ result.op = "apply" /\ result.status = "ok"
            /\ IsSome(result.cache_rows) )
           => LET spec == Unwrap(result.spec)
              IN \A i \in Unwrap(result.cache_rows) :
                    surfaces[i].last_frame =
                       IF result.cached
                       THEN Some(CachedPixels19(spec, i, surfaces[i]))
                       ELSE Some(render_final_frame_u32(surfaces[i].width,
                                    surfaces[i].height, GoodImage, spec.colour)))

\* a file that does not decode was applied from the cache to both surfaces,
\* and what one of them shows is not the rendered image
C19_Witness ==
    /\ pc = "done" /\ result.op = "apply" /\ result.status = "ok"
    /\ result.cached
    /\ result.cache_rows = Some(1..MaxOutputs)
    /\ Unwrap(result.spec).path = FileA
    /\ \E i \in 1..MaxOutputs :
          surfaces[i].last_frame #
             Some(render_final_frame_u32(surfaces[i].width, surfaces[i].height,
                                         GoodImage, Unwrap(result.spec).colour))

\* C19 (as stated): cached frames are used exactly when the key is in the
\* index and a frame loads for every selected configured surface, none
\* selected included
C19_CachedIffAllLoad ==
    (pc = "done" /\ result.op = "apply" /\ IsSome(result.cache_rows))
    => (result.cached
          <=> /\ KeyInIndex19(Unwrap(result.spec))
              /\ \A i \in Unwrap(result.cache_rows) :
                    FrameLoads19(Unwrap(result.spec), i, result.before[i]))

\* the byte of pixel px whose lowest bit has weight n
Chan20(px, n) == (px \div n) % 256
Lerp20(x, y, tt) == (x * (256 - tt) + y * tt) \div 256

\* C20: for every tt in 0..256 and every pixel, each of the R, G, B channels
\* of what the blend kernel wrote is floor((x*(256-tt) + y*tt)/256) of the
\* channels x of from and y of to; in the packed red+blue product the blue
\* part and the red part each stay below 2^16, so nothing carries from blue
\* into red and the product stays below 2^32; at tt = 0 the output is from
\* and at tt = 256 it is to.
C20_BlendKernel ==
    blend.dst # <<>>
    => /\ Len(blend.dst) = Len(blend.from)
       /\ \A k \in 1..Len(blend.dst) :
             LET a == blend.from[k]
                 b == blend.to[k]
                 tt == blend.t256
             IN /\ \A n \in {1, 256, 65536} :
                      Chan20(blend.dst[k], n) = Lerp20(Chan20(a, n), Chan20(b, n), tt)
                /\ \A n \in {1, 65536} :
                      Chan20(a, n) * (256 - tt) + Chan20(b, n) * tt < 65536
       /\ blend.t256 = 0 => blend.dst = blend.from
       /\ blend.t256 = 256 => blend.dst = blend.to

\* the kernel lerped between two pixels whose blue is full and whose red and
\* green differ, half way
C20_Witness ==
    /\ blend.dst # <<>>
    /\ blend.t256 = 128
    /\ Chan20(blend.from[1], 1) = 255 /\ Chan20(blend.to[1], 1) = 255
    /\ Chan20(blend.from[1], 65536) = 0 /\ Chan20(blend.to[1], 65536) = 255
    /\ Chan20(blend.from[1], 256) = 255 /\ Chan20(blend.to[1], 256) = 129
    /\ blend.dst[1] = 127 * 65536 + 192 * 256 + 255

\* the row the wipe is said to produce at position tt, pixel by pixel
WipeRow21(b, tt) ==
    LET cols == (b.w * tt) \div 256
    IN [k \in 1..(b.w * b.h) |->
          LET x == (k - 1) % b.w
          IN IF b.wipe_from = "Left"
             THEN (IF x + 1 <= cols THEN b.to[k] ELSE b.from[k])
             ELSE (IF x + 1 <= b.w - cols THEN b.from[k] ELSE b.to[k])]

\* C21: for every tt in 0..256, width w and row y the wipe kernel's output
\* row is to[..cols] ++ from[cols..] for Left and from[..w-cols] ++ to[w-cols..]
\* for Right, with cols = (w*tt) div 256; so at tt = 0 the output is from, at
\* tt = 256 it is to, and the columns taken from to at one position are taken
\* from to at every later one.
C21_WipeRows ==
    ("dst2" \in DOMAIN blend /\ blend.dst # <<>>)
    => /\ blend.dst = WipeRow21(blend, blend.t256)
       /\ blend.dst2 = WipeRow21(blend, blend.t2)
       /\ blend.t256 = 0 => blend.dst = blend.from
       /\ blend.t2 = 256 => blend.dst2 = blend.to
       /\ \A k \in 1..(blend.w * blend.h) :
             blend.dst[k] = blend.to[k] => blend.dst2[k] = blend.to[k]

\* a wipe from the right over four columns showed one column of the target
\* at the earlier position and three at the later one, in its first row
C21_Witness ==
    /\ "dst2" \in DOMAIN blend /\ blend.dst # <<>>
    /\ blend.kernel = "frame" /\ blend.wipe_from = "Right" /\ blend.w = 4
    /\ blend.t256 = 64 /\ blend.t2 = 192
    /\ SubSeq(blend.dst, 1, 4) = <<1, 2, 3, 104>>
    /\ SubSeq(blend.dst2, 1, 4) = <<1, 102, 103, 104>>

\* v lies between p and q, ends included
Between22(v, p, q) == (p <= v /\ v <= q) \/ (q <= v /\ v <= p)

\* C22: for 8-bit channel values (x, y) and 0 <= t1 <= t2 <= 256 the blend
\* kernel's per-channel result at t1 lies between x and its result at t2,
\* and every result lies between x and y.
C22_BlendMonotone ==
    ("frames" \in DOMAIN blend /\ blend.frames # <<>>)
    => \A out \in {blend.frames, blend.solids} :
          \A n \in {1, 256, 65536} :
             LET x == Chan20(blend.from[1], n)
                 y == Chan20(blend.to[1], n)
             IN \A t2 \in 0..256 :
                   /\ Between22(Chan20(out[t2 + 1], n), x, y)
                   /\ \A t1 \in 0..t2 :
                         Between22(Chan20(out[t1 + 1], n), x, Chan20(out[t2 + 1], n))

\* a blend that takes red down from 255 to 0 and green up from 0 to 255
\* was run through all positions; a quarter of the way red stood at 191
C22_Witness ==
    /\ "frames" \in DOMAIN blend /\ blend.frames # <<>>
    /\ blend.from = <<255 * 65536 + 255>>
    /\ blend.to = <<255 * 256>>
    /\ Chan20(blend.frames[65], 65536) = 191
    /\ Chan20(blend.solids[65], 256) = 63

\* C23: a daemon started while another is running never removes, rebinds or
\* otherwise touches the running one's control socket: ctl.sock is removed
\* and bound only by the process holding the exclusive lock on gesso.lock,
\* and a process that does not get the lock exits without touching it.
C23_SingleInstance ==
    /\ [](\A p \in DOMAIN inst.pc :
            inst.pc[p] \in {"prepare", "sock", "serve"} => inst.lock = p)
    /\ [][\A p \in DOMAIN inst.pc :
            inst'.pc[p] # inst.pc[p]
            => /\ inst'.sock # inst.sock => (inst.lock = p /\ inst.pc[p] # "lock")
               /\ (inst.pc[p] = "lock" /\ inst'.lock # p)
                    => (inst'.pc[p] = "off" /\ inst'.sock = inst.sock)
               /\ \A q \in DOMAIN inst.pc :
                     (q # p /\ inst.pc[q] = "serve" /\ inst.sock = q)
                     => inst'.sock = inst.sock]_vars

\* while one daemon serves on the socket it bound, a second one has been
\* turned away and a third is at the lock
C23_Witness ==
    /\ inst.pc # <<>>
    /\ inst.pc[1] = "serve" /\ inst.sock = 1 /\ inst.lock = 1
    /\ inst.pc[2] = "off" /\ inst.last[2] = "another instance is already running"
    /\ inst.pc[3] = "lock"

\* C24: in every reachable state of a surface at most one of its two SHM
\* slots has busy = true, so that at every commit the slot not committed is
\* free for the next paint.
C24_OneSlotBusy ==
    \A i \in 1..Len(surfaces) :
       ~(surfaces[i].buffers.a.busy /\ surfaces[i].buffers.b.busy)

\* C25: every paint into the current SHM slot comes after readiness was
\* re-established: when the paint is about to happen the current slot is not
\* busy, and if frame_callback_ok holds then frame_pending does not.
C25_PaintWhenReady ==
    pc = "paint"
    => LET s == surfaces[op.i]
       IN /\ ~current_is_busy(s.buffers)
          /\ s.frame_callback_ok => ~s.frame_pending

\* the busy flag of slot which (0 or 1) in a row of the surface table
Busy26(s, which) == IF which = 0 THEN s.buffers.a.busy ELSE s.buffers.b.busy
\* the step replaced the row's double buffer as a whole: it was not complete
\* or of another size before, or is empty afterwards
Replaced26(s, t) ==
    \/ ~(s.buffers.a.ready /\ s.buffers.b.ready)
    \/ ~(t.buffers.a.ready /\ t.buffers.b.ready)
    \/ s.size_bytes # t.size_bytes \/ s.stride # t.stride

\* the step dispatched the release of a buffer created with user data
\* (i, which)
Released26(i, which) ==
    /\ pc' = pc
    /\ \/ comp[i].held[which + 1] /\ ~comp'[i].held[which + 1]
       \/ comp[i].stale[which + 1] /\ ~comp'[i].stale[which + 1]

\* C26 (as stated): a slot's busy flag turns true only in commit_surface, for
\* the slot that was current and was just attached, current then naming the
\* other slot, and turns false only by dispatch of a wl_buffer release
\* addressed to that (surface index, slot index).
C26_BusyOnlyByCommitAndRelease ==
    [][\A i \in 1..Min(Len(surfaces), Len(surfaces')) : \A which \in {0, 1} :
         /\ (~Busy26(surfaces[i], which) /\ Busy26(surfaces'[i], which))
              => /\ surfaces'[i].buffers.current = 1 - which
                 /\ comp'[i].held[which + 1]
         /\ (Busy26(surfaces[i], which) /\ ~Busy26(surfaces'[i], which))
              => Released26(i, which)]_vars

\* C26 (as amended): a busy flag turns true only in commit_surface, for the
\* slot that is current at the commit (the other one when the caller first
\* swapped away from a busy slot, slot 0 of a fresh pair) and is attached,
\* current then naming the other slot; it turns false only by dispatch of a wl_buffer release
\* addressed to that (surface index, slot index), or when the surface's
\* double buffer is replaced as a whole, the new slots starting not busy.
C26_BusyByCommitReleaseReplace ==
    [][\A i \in 1..Min(Len(surfaces), Len(surfaces')) : \A which \in {0, 1} :
         LET s == surfaces[i]
             t == surfaces'[i]
         IN /\ (~Busy26(s, which) /\ Busy26(t, which))
                 => /\ IF Replaced26(s, t) THEN which = 0
                       ELSE \/ s.buffers.current = which
                            \/ Busy26(s, s.buffers.current)
                    /\ t.buffers.current = 1 - which
                    /\ t.buffers.a.ready /\ t.buffers.b.ready
                    /\ comp'[i].held[which + 1]
                    /\ pc \in {"body", "paint"}
            /\ (Busy26(s, which) /\ ~Busy26(t, which))
                 => \/ Released26(i, which) /\ ~Replaced26(s, t)
                    \/ /\ Replaced26(s, t)
                       /\ comp'[i].stale[which + 1] =
                             (comp[i].stale[which + 1] \/ comp[i].held[which + 1])]_vars

\* slot 0 of a surface was committed and has been released, slot 1 was
\* committed after it and is still with the compositor
C26_Witness ==
    \E i \in 1..Len(surfaces) :
       /\ surfaces[i].buffers.a.ready /\ ~surfaces[i].buffers.a.busy
       /\ surfaces[i].buffers.b.busy
       /\ surfaces[i].buffers.current = 0
       /\ ~comp[i].held[1] /\ comp[i].held[2]

\* C27: when the buffer wait reaches its hard bail (1500 ms or more read on
\* its clock) it returns Ok, never an error, with frame_pending false, no
\* frame callback object and frame_callback_ok false on that surface, and the
\* busy flags and the current index of its double buffer, and every other
\* surface, are as they were before the bail.
C27_HardBailState ==
    [][pc = "wait"
       => /\ (pc' = "paint" /\ op'.welapsed >= 1500)
              => /\ Len(surfaces') = Len(surfaces)
                 /\ ~surfaces'[op.i].frame_pending
                 /\ ~surfaces'[op.i].frame_cb
                 /\ ~surfaces'[op.i].frame_callback_ok
                 /\ surfaces'[op.i].buffers = surfaces[op.i].buffers
                 /\ \A j \in 1..Len(surfaces) :
                       j # op.i => surfaces'[j] = surfaces[j]
                 /\ result' = result
          /\ (pc' = "done" /\ now' < MaxClock)
              => op.welapsed + (now' - now) < 1500
          /\ pc' = "wait" => op'.welapsed < 1500]_vars

\* a hard bail has just returned for a surface whose current slot is busy
\* while its other slot is free
C27_Witness ==
    /\ pc = "paint" /\ op.welapsed >= 1500
    /\ LET db == surfaces[op.i].buffers
       IN IF db.current = 0 THEN db.a.busy /\ ~db.b.busy
          ELSE db.b.busy /\ ~db.a.busy

\* what the claim calls the condition for re-creation, from the row's fields
Needs28(s) ==
    \/ ~s.buffers.a.ready \/ ~s.buffers.b.ready
    \/ s.size_bytes # s.width * 4 * s.height
    \/ s.stride # s.width * 4
Pacing28(s) == <<s.frame_pending, s.frame_callback_ok, s.frame_cb>>

\* C28: a call of ensure_buffers_for_surface_indexed that returns Ok leaves
\* the row untouched when both slots exist and the stored size_bytes and
\* stride equal width*4*height and width*4; otherwise it has replaced both
\* slots: both exist and are not busy, current is slot 0, size_bytes and
\* stride match the surface, and frame_pending, frame_callback_ok and the
\* frame callback object are cleared.  It fails only when it had to
\* re-create.
C28_EnsureBuffers ==
    (pc = "done" /\ result.op = "ensure")
    => LET s == result.before[1]
           t == surfaces[1]
       IN /\ result.status = "err" => Needs28(s)
          /\ (result.status = "ok" /\ ~Needs28(s)) => t = s
          /\ (result.status = "ok" /\ Needs28(s))
              => /\ t.buffers = [a |-> [ready |-> TRUE, busy |-> FALSE],
                                 b |-> [ready |-> TRUE, busy |-> FALSE],
                                 current |-> 0]
                 /\ t.size_bytes = t.width * t.height * 4
                 /\ t.stride = t.width * 4
                 /\ Pacing28(t) = <<FALSE, FALSE, FALSE>>
                 /\ t.width = s.width /\ t.height = s.height

\* a complete pair of buffers of the same byte size and another stride, one of
\* them busy and a frame callback pending, was replaced
C28_Witness ==
    /\ pc = "done" /\ result.op = "ensure" /\ result.status = "ok"
    /\ LET s == result.before[1]
       IN /\ s.buffers.a.ready /\ s.buffers.b.ready /\ s.buffers.b.busy
          /\ s.buffers.current = 1
          /\ s.size_bytes = s.width * 4 * s.height /\ s.stride # s.width * 4
          /\ s.frame_pending /\ s.frame_callback_ok
          /\ surfaces[1].buffers.current = 0 /\ ~surfaces[1].buffers.b.busy

\* C29: at every commit the attached buffer's stride and byte size are those
\* of the surface's configured width and height at that moment, also when a
\* configure with a new size was dispatched since the buffer check at the
\* start of the apply.
C29_CommitMatchesSize ==
    [][\A i \in 1..Min(Len(surfaces), Len(surfaces')) :
         LET s == surfaces[i]
             t == surfaces'[i]
         IN ((~s.buffers.a.busy /\ t.buffers.a.busy)
               \/ (~s.buffers.b.busy /\ t.buffers.b.busy))
            => /\ t.stride = t.width * 4
               /\ t.size_bytes = t.width * t.height * 4]_vars

\* the time the wait loop of this step read on its clock
Elapsed30 ==
    IF pc' = "done" THEN op.welapsed + (now' - now) ELSE op'.welapsed
\* the steps that clear frame_callback_ok of row i, told by what they leave
Stall30(i, s) ==
    /\ pc = "wait" /\ op.i = i /\ s.frame_callback_ok /\ s.frame_pending
    /\ pc' # "paint"
    /\ Elapsed30 >= 200 \/ now' = MaxClock
Bail30(i) == pc = "wait" /\ op.i = i /\ pc' = "paint" /\ op'.welapsed >= 1500
Realloc30(s, t) ==
    /\ t.buffers.a.ready /\ t.buffers.b.ready
    /\ \/ ~(s.buffers.a.ready /\ s.buffers.b.ready)
       \/ s.size_bytes # t.size_bytes \/ s.stride # t.stride
UnsetOf30(s) ==
    /\ pc = "body" /\ op.kind = "unset" /\ pc' = "done"
    /\ result'.err \in {"", "flush"}
    /\ IsSome(op.output) => s.output_name = op.output
Closed30(i) == ~comp[i].closed /\ comp'[i].closed
Resurrect30(s, t) == ~s.alive /\ t.alive

\* C30: frame_callback_ok is false on a new, resurrected or re-allocated
\* surface and turns true only by dispatch of a wl_callback done event for
\* that surface index; the 200 ms stall, the hard bail, buffer re-allocation,
\* unset and the closed event leave it false, and nothing else turns it false.
C30_FrameCallbackOk ==
    [][/\ \A i \in 1..Len(surfaces') :
            i > Len(surfaces) => ~surfaces'[i].frame_callback_ok
       /\ \A i \in 1..Min(Len(surfaces), Len(surfaces')) :
            LET s == surfaces[i]
                t == surfaces'[i]
                clears == \/ Stall30(i, s) \/ Bail30(i) \/ Realloc30(s, t)
                          \/ UnsetOf30(s) \/ Closed30(i) \/ Resurrect30(s, t)
            IN /\ (~s.frame_callback_ok /\ t.frame_callback_ok)
                    => /\ comp'[i].cbs = comp[i].cbs - 1
                       /\ pc' = pc
                       /\ ~t.frame_pending /\ ~t.frame_cb
               /\ (s.frame_callback_ok /\ ~t.frame_callback_ok) => clears
               /\ clears => ~t.frame_callback_ok]_vars

\* a surface whose frame callbacks were answered is waited for with a
\* callback pending, before the stall limit
C30_Witness ==
    /\ pc = "wait" /\ op.welapsed < 200
    /\ surfaces[op.i].frame_callback_ok /\ surfaces[op.i].frame_pending

\* a step of the wait loop itself, as opposed to an event its pump dispatches
WaitStep31 ==
    pc = "wait" /\ (pc' # "wait" \/ op'.welapsed > op.welapsed
                       \/ op'.inpump # op.inpump)
Free31(s) ==
    IF s.buffers.current = 0 THEN ~s.buffers.a.busy ELSE ~s.buffers.b.busy

Pixels32(i) ==
    [last_frame |-> surfaces[i].last_frame, last_colour |-> surfaces[i].last_colour,
     has_image |-> surfaces[i].has_image, shown |-> comp[i].shown]
\* the pixels of the target on surface i
Painted32(i) ==
    LET spec == Unwrap(result.spec)
        s == surfaces[i]
        px == IF spec.kind = "colour"
              THEN [k \in 1..(s.width * s.height) |-> xrgb8888(spec.colour)]
              ELSE render_final_frame_u32(s.width, s.height, GoodImage, spec.colour)
    IN /\ s.last_frame = Some(px) /\ comp[i].shown = Some(px)
       /\ s.has_image = (spec.kind = "image")
       /\ spec.kind = "colour" => s.last_colour = spec.colour
\* nothing committed, the frame kept, only the colour noted
Kept32(i) ==
    /\ result.commits[i] = 0
    /\ surfaces[i].last_frame = result.before[i].last_frame
    /\ surfaces[i].last_colour = Unwrap(result.spec).colour
    /\ ~surfaces[i].has_image
\* nothing committed and nothing noted
Skipped32(i) ==
    /\ result.commits[i] = 0
    /\ surfaces[i].last_frame = result.before[i].last_frame
    /\ surfaces[i].last_colour = result.before[i].last_colour
    /\ surfaces[i].has_image = result.before[i].has_image
\* the frames the selected surfaces held at the call all equal the colour
Same32 ==
    \A i \in result.selected : \A k \in 1..Len(Unwrap(result.from[i])) :
        Unwrap(result.from[i])[k] = xrgb8888(Unwrap(result.spec).colour)
BothBusy32(i) ==
    result.before[i].buffers.a.busy /\ result.before[i].buffers.b.busy

\* C32: what a successful apply leaves of pixels on a selected usable surface
\* is decided by the spec, by the frames the surfaces held at the call and,
\* for an instant colour, by the busy flags of its slots, never by
\* frame_callback_ok, frame_pending or the delivery of frame-done events: it
\* is the target in last_frame and in the last committed buffer, or, for a
\* colour transition to surfaces that all show the colour already, the old
\* frame with the colour noted, or, for an instant colour with both slots
\* busy, the row as it was.
C32_PixelsIgnorePacing ==
    (ApplyReturnedOk /\ ~result.cached)
    => LET spec == Unwrap(result.spec)
       IN \A i \in result.selected :
            surface_usable(surfaces[i])
            => IF spec.kind = "colour" /\ spec.transition.kind = "None"
               THEN (IF BothBusy32(i) THEN Skipped32(i) ELSE Painted32(i))
               ELSE IF spec.kind = "colour" /\ Same32
               THEN Kept32(i)
               ELSE Painted32(i)

\* a fade of several frames returned with the target on a surface whose
\* frame callbacks were answered while it ran
C32_Witness ==
    /\ ApplyReturnedOk /\ ~result.cached
    /\ Unwrap(result.spec).transition.kind = "Fade"
    /\ \E i \in result.selected :
          /\ surface_usable(surfaces[i]) /\ Painted32(i)
          /\ result.commits[i] >= 2
          /\ surfaces[i].frame_callback_ok

\* the step committed a buffer of row i: one of its busy flags came on
Commit33(s, t) ==
    \/ ~s.buffers.a.busy /\ t.buffers.a.busy
    \/ ~s.buffers.b.busy /\ t.buffers.b.busy
\* the row's double buffer was replaced in the step, which clears frame_pending
\* before the commit
Fresh33(s, t) ==
    \/ ~(s.buffers.a.ready /\ s.buffers.b.ready)
    \/ s.size_bytes # t.size_bytes \/ s.stride # t.stride

C34_ImageHasFrame ==
    \A i \in 1..Len(surfaces) :
       surfaces[i].has_image => surfaces[i].last_frame # <<>>

\* a surface shows an image while a later request is being served
C34_Witness ==
    /\ pc \notin {"idle", "done"}
    /\ \E i \in 1..Len(surfaces) :
          surfaces[i].has_image /\ surfaces[i].last_frame # <<>>

\* C35: in every state, on every surface, a last_frame that is Some has
\* width * height elements, also after a configure event with another size.
C35_FrameLenMatchesSize ==
    \A i \in 1..Len(surfaces) :
       surfaces[i].last_frame # <<>>
       => Len(surfaces[i].last_frame[1]) = surfaces[i].width * surfaces[i].height

\* C36: in every state, on every surface, configured implies width > 0 and
\* height > 0, whatever size a configure event carries.
C36_ConfiguredHasSize ==
    \A i \in 1..Len(surfaces) :
       surfaces[i].configured => (surfaces[i].width > 0 /\ surfaces[i].height > 0)

\* C37: after every successful Colour apply, on every selected usable surface
\* the content of the most recently committed buffer (what the compositor
\* shows) is the solid target colour in every pixel, whatever applies and
\* unsets came before
C37_ColourShown ==
    (ApplyReturnedOk /\ Unwrap(result.spec).kind = "colour")
    => \A i \in result.selected :
          surface_usable(surfaces[i])
          => comp[i].shown =
                Some(SolidFrame(xrgb8888(Unwrap(result.spec).colour),
                                surfaces[i].width * surfaces[i].height))


\* C38: the release of a buffer that was created before the surface's buffers
\* were re-allocated, reset by unset or resurrection, or dropped by stop
\* changes no busy flag (and nothing else) of the buffers the surface has now
C38_StaleReleaseIgnored ==
    [][\A i \in 1..Min(Len(surfaces), Len(surfaces')) : \A which \in {0, 1} :
         (/\ pc' = pc /\ comp'[i].held = comp[i].held
          /\ comp[i].stale[which + 1] /\ ~comp'[i].stale[which + 1])
         => surfaces'[i].buffers = surfaces[i].buffers]_vars

\* C39: in every state, on every surface, frame_pending is true exactly when
\* the surface holds a frame callback object (frame_cb is Some)
C39_PendingIffCallback ==
    \A i \in 1..Len(surfaces) : surfaces[i].frame_pending = surfaces[i].frame_cb

\* a commit requested a frame callback and its Done has been dispatched: both
\* fields were set together and cleared together, the committed buffer is
\* still busy
C39_Witness ==
    \E i \in 1..Len(surfaces) :
       /\ surfaces[i].frame_callback_ok
       /\ ~surfaces[i].frame_pending /\ ~surfaces[i].frame_cb
       /\ surfaces[i].buffers.a.busy \/ surfaces[i].buffers.b.busy

\* C40: between requests, current.json holds spec S exactly when the engine's
\* current() is Some(S) (file writes succeeding): written only after an apply
\* succeeded, removed on a global unset and on stop, untouched by a
\* per-output unset and by a failed apply, rebuilt engine or not
C40_FileMatchesCurrent ==
    pc \in {"idle", "exit"} => current_json = current

====
